---- MODULE Spec2Model ----
(***************************************************************************)
(* runepkg: the script classification and syntax-validation engine         *)
(* (src/runepkg/src/exec.rs, src/runepkg/src/script.rs and the gccrs-src   *)
(* variants).                                                              *)
(*                                                                         *)
(* A text (Rust &str) is a sequence of characters.  A character is a       *)
(* string: an ASCII character stands for itself, any other character is    *)
(* written by its code point ("U+0000" is NUL, "U+00A0" the no-break       *)
(* space).  The operations are pure functions of the text; each is an      *)
(* operator, applied by one action to the text chosen in the initial       *)
(* state.  The one operation that waits, rust_execute_script_from_memory,  *)
(* is a sequence of steps around its interpreter process.                  *)
(***************************************************************************)
EXTENDS Integers, Sequences, FiniteSets, TLC

VARIABLES
    script,     \* the text handed to the operation
    call,       \* the other arguments of the operation, a record
    pc,         \* "start", or the name of the operation that has run
    ret,        \* the value the operation returned
    theme_set,  \* lib.rs THEME_SET: the names of the loaded themes, in order
    heap,       \* the allocations handed to the caller, by address
    child       \* the interpreter process of a call of
                \* rust_execute_script_from_memory that has not returned

vars == <<script, call, pc, ret, theme_set, heap, child>>

\* The arguments of an operation that takes the text alone.
NoArgs == [text_only |-> TRUE]

(***************************************************************************)
(* Characters and the std string functions the code calls.                 *)
(***************************************************************************)
NUL == "U+0000"

NBSP == "U+00A0"

\* char::is_whitespace: the Unicode White_Space property.
is_whitespace(c) ==
    c \in {" ", "\t", "\n", "\r", "\f", "U+000B", "U+0085", NBSP, "U+1680",
           "U+2000", "U+2001", "U+2002", "U+2003", "U+2004", "U+2005",
           "U+2006", "U+2007", "U+2008", "U+2009", "U+200A", "U+2028",
           "U+2029", "U+202F", "U+205F", "U+3000"}

\* char::len_utf8: the number of bytes of a character in UTF-8 (1 below
\* U+0080, 2 below U+0800, 3 below U+10000).
len_utf8(c) ==
    IF c \in {"U+0085", NBSP, "U+00E9", "U+0130", "U+0307"} THEN 2
    ELSE IF c \in {"U+1680", "U+2000", "U+2001", "U+2002", "U+2003", "U+2004",
                   "U+2005", "U+2006", "U+2007", "U+2008", "U+2009", "U+200A",
                   "U+2028", "U+2029", "U+202F", "U+205F", "U+3000", "U+212A"}
    THEN 3
    ELSE 1

\* str::len: the length of a text in bytes.
RECURSIVE len(_)
len(s) == IF s = <<>> THEN 0 ELSE len_utf8(Head(s)) + len(Tail(s))

\* str::starts_with
starts_with(s, p) == Len(s) >= Len(p) /\ SubSeq(s, 1, Len(p)) = p

\* str::contains
contains(s, p) ==
    \E i \in 1..(Len(s) - Len(p) + 1) : SubSeq(s, i, i + Len(p) - 1) = p

\* str::lines: split at "\n"; a line's "\n" and a "\r" right before it are
\* not part of the line; a last line without "\n" is kept as it is; the
\* empty text has no lines.
RECURSIVE lines(_)
lines(s) ==
    IF s = <<>> THEN <<>>
    ELSE IF \E i \in 1..Len(s) : s[i] = "\n"
    THEN LET i == CHOOSE k \in 1..Len(s) :
                      s[k] = "\n" /\ \A j \in 1..(k - 1) : s[j] # "\n"
             line == SubSeq(s, 1, i - 1)
             stripped == IF line # <<>> /\ line[Len(line)] = "\r"
                         THEN SubSeq(line, 1, Len(line) - 1)
                         ELSE line
         IN  <<stripped>> \o lines(SubSeq(s, i + 1, Len(s)))
    ELSE <<s>>

\* str::split_whitespace: the maximal runs of non-whitespace characters.
RECURSIVE split_whitespace(_)
split_whitespace(s) ==
    IF s = <<>> THEN <<>>
    ELSE IF is_whitespace(Head(s)) THEN split_whitespace(Tail(s))
    ELSE LET n == CHOOSE k \in 1..Len(s) :
                      /\ \A j \in 1..k : ~is_whitespace(s[j])
                      /\ (k = Len(s) \/ is_whitespace(s[k + 1]))
         IN  <<SubSeq(s, 1, n)>> \o split_whitespace(SubSeq(s, n + 1, Len(s)))

\* str::trim: without the leading and the trailing whitespace.
RECURSIVE trim(_)
trim(s) ==
    IF s = <<>> THEN <<>>
    ELSE IF is_whitespace(Head(s)) THEN trim(Tail(s))
    ELSE IF is_whitespace(s[Len(s)]) THEN trim(SubSeq(s, 1, Len(s) - 1))
    ELSE s

ASCII_UPPER ==
    <<"A", "B", "C", "D", "E", "F", "G", "H", "I", "J", "K", "L", "M",
      "N", "O", "P", "Q", "R", "S", "T", "U", "V", "W", "X", "Y", "Z">>

ASCII_LOWER ==
    <<"a", "b", "c", "d", "e", "f", "g", "h", "i", "j", "k", "l", "m",
      "n", "o", "p", "q", "r", "s", "t", "u", "v", "w", "x", "y", "z">>

\* char::to_lowercase: the lower-case form of a character, which may be
\* more than one character (U+0130 becomes "i" and U+0307) or a shorter
\* encoding (U+212A, the Kelvin sign, becomes "k").
char_to_lowercase(c) ==
    IF \E k \in 1..26 : ASCII_UPPER[k] = c
    THEN <<ASCII_LOWER[CHOOSE k \in 1..26 : ASCII_UPPER[k] = c]>>
    ELSE IF c = "U+0130" THEN <<"i", "U+0307">>
    ELSE IF c = "U+212A" THEN <<"k">>
    ELSE <<c>>

\* str::to_lowercase
RECURSIVE to_lowercase(_)
to_lowercase(s) ==
    IF s = <<>> THEN <<>> ELSE char_to_lowercase(Head(s)) \o to_lowercase(Tail(s))

\* Option<T>: None is the empty sequence, Some(x) the sequence of x alone.
None == <<>>

Some(x) == <<x>>

(***************************************************************************)
(* The state of the process besides the text: the theme set of lib.rs,     *)
(* loaded once (Lazy) and never changed, and the allocations the entry     *)
(* points hand to the caller.                                              *)
(***************************************************************************)
\* syntect ThemeSet::load_defaults: the themes built into the library, a
\* BTreeMap whose keys() are in ascending order.
load_defaults ==
    <<
      \* InspiredGitHub
      <<"I", "n", "s", "p", "i", "r", "e", "d", "G", "i", "t", "H", "u",
        "b">>,
      \* Solarized (dark)
      <<"S", "o", "l", "a", "r", "i", "z", "e", "d", " ", "(", "d", "a",
        "r", "k", ")">>,
      \* Solarized (light)
      <<"S", "o", "l", "a", "r", "i", "z", "e", "d", " ", "(", "l", "i",
        "g", "h", "t", ")">>,
      \* base16-eighties.dark
      <<"b", "a", "s", "e", "1", "6", "-", "e", "i", "g", "h", "t", "i",
        "e", "s", ".", "d", "a", "r", "k">>,
      \* base16-mocha.dark
      <<"b", "a", "s", "e", "1", "6", "-", "m", "o", "c", "h", "a", ".",
        "d", "a", "r", "k">>,
      \* base16-ocean.dark
      <<"b", "a", "s", "e", "1", "6", "-", "o", "c", "e", "a", "n", ".",
        "d", "a", "r", "k">>,
      \* base16-ocean.light
      <<"b", "a", "s", "e", "1", "6", "-", "o", "c", "e", "a", "n", ".",
        "l", "i", "g", "h", "t">>
    >>

\* No allocation has been handed out.
no_allocations == <<>>

\* No call of rust_execute_script_from_memory is under way.  `other` is
\* the pointer a second thread holds, a null pointer when it holds none.
no_child ==
    [stage |-> "none", call |-> NoArgs, interpreter |-> <<>>,
     other |-> [tag |-> "null", int |-> 0, text |-> <<>>, type |-> "", addr |-> 0]]

(***************************************************************************)
(* exec.rs: the shebang parser.                                            *)
(***************************************************************************)
\* A faulty variant: the shebang content is split at single spaces (str::split),
\* so leading whitespace yields an empty first part.
extract_shebang_interpreter_split(s) ==
    LET ls == lines(s)
    IN  IF ls = <<>> THEN None
        ELSE IF ~starts_with(ls[1], <<"#", "!">>) THEN None
        ELSE LET shebang_content == SubSeq(ls[1], 3, Len(ls[1]))
                 n == IF \E k \in 1..Len(shebang_content) :
                              shebang_content[k] = " "
                      THEN (CHOOSE k \in 1..Len(shebang_content) :
                              /\ shebang_content[k] = " "
                              /\ \A j \in 1..(k - 1) : shebang_content[j] # " ")
                           - 1
                      ELSE Len(shebang_content)
             IN  Some(SubSeq(shebang_content, 1, n))

extract_shebang_interpreter(s) ==
    LET ls == lines(s)
    IN  IF ls = <<>> THEN None
        ELSE LET first_line == ls[1]
             IN  IF ~starts_with(first_line, <<"#", "!">>) THEN None
                 ELSE LET shebang_content == SubSeq(first_line, 3, Len(first_line))
                          parts == split_whitespace(shebang_content)
                      IN  IF parts = <<>> THEN None ELSE Some(parts[1])

\* A faulty variant: the maximum bounds the tokens after the interpreter, so the
\* interpreter itself is not counted.
RECURSIVE push_parts_after_interpreter(_, _, _, _)
push_parts_after_interpreter(parts, i, max, args) ==
    IF i >= Len(parts) THEN args
    ELSE IF i >= max + 1 THEN args
    ELSE push_parts_after_interpreter(parts, i + 1, max, Append(args, parts[i + 1]))

\* The loop of extract_shebang_args: `for (i, part) in parts.iter().enumerate()`
\* with i counted from 0, `if i >= max_args { break }`, `args.push(part)`.
RECURSIVE push_parts(_, _, _, _)
push_parts(parts, i, max, args) ==
    IF i >= Len(parts) THEN args
    ELSE IF i >= max THEN args
    ELSE push_parts(parts, i + 1, max, Append(args, parts[i + 1]))

extract_shebang_args(s, max) ==
    LET ls == lines(s)
    IN  IF ls = <<>> THEN <<>>
        ELSE LET first_line == ls[1]
             IN  IF ~starts_with(first_line, <<"#", "!">>) THEN <<>>
                 ELSE LET shebang_content == SubSeq(first_line, 3, Len(first_line))
                          parts == split_whitespace(shebang_content)
                      IN  push_parts(parts, 0, max, <<>>)

(***************************************************************************)
(* script.rs: validate_quotes.  The loop over script.chars() is a fold of  *)
(* quote_step over the characters.                                         *)
(***************************************************************************)
quote_init ==
    [in_single_quote |-> FALSE, in_double_quote |-> FALSE, escape_next |-> FALSE]

\* A faulty variant: as in a shell, a backslash inside single quotes escapes
\* nothing.
quote_step_literal_in_single(st, ch) ==
    IF st.escape_next THEN [st EXCEPT !.escape_next = FALSE]
    ELSE IF ch = "\\" /\ ~st.in_single_quote THEN [st EXCEPT !.escape_next = TRUE]
    ELSE IF ch = "'" /\ ~st.in_double_quote
    THEN [st EXCEPT !.in_single_quote = ~st.in_single_quote]
    ELSE IF ch = "\"" /\ ~st.in_single_quote
    THEN [st EXCEPT !.in_double_quote = ~st.in_double_quote]
    ELSE st

\* One turn of the loop (lines 164-176).
quote_step(st, ch) ==
    IF st.escape_next THEN [st EXCEPT !.escape_next = FALSE]
    ELSE IF ch = "\\" THEN [st EXCEPT !.escape_next = TRUE]
    ELSE IF ch = "'" /\ ~st.in_double_quote
    THEN [st EXCEPT !.in_single_quote = ~st.in_single_quote]
    ELSE IF ch = "\"" /\ ~st.in_single_quote
    THEN [st EXCEPT !.in_double_quote = ~st.in_double_quote]
    ELSE st

\* The loop's variables after the first n characters of s.
RECURSIVE quote_scan(_, _)
quote_scan(s, n) ==
    IF n = 0 THEN quote_init ELSE quote_step(quote_scan(s, n - 1), s[n])

validate_quotes(s) ==
    LET st == quote_scan(s, Len(s))
    IN  ~st.in_single_quote /\ ~st.in_double_quote

(***************************************************************************)
(* script.rs: validate_brackets.  `returned` says that the loop has left   *)
(* by `return false`, `pos` counts the characters the loop has taken.      *)
(***************************************************************************)
bracket_init ==
    [brace_count |-> 0, bracket_count |-> 0, paren_count |-> 0,
     in_quote |-> FALSE, quote_char |-> NUL, returned |-> FALSE, pos |-> 0]

\* The counters after a character outside quotes (lines 205-213).
bracket_count_step(st, ch) ==
    [st EXCEPT
       !.brace_count = IF ch = "{" THEN @ + 1 ELSE IF ch = "}" THEN @ - 1 ELSE @,
       !.bracket_count = IF ch = "[" THEN @ + 1 ELSE IF ch = "]" THEN @ - 1 ELSE @,
       !.paren_count = IF ch = "(" THEN @ + 1 ELSE IF ch = ")" THEN @ - 1 ELSE @]

\* A faulty variant: no early exit, the counters are looked at after the loop
\* alone.
bracket_step_no_early_exit(st, ch) ==
    IF ~st.in_quote /\ (ch = "\"" \/ ch = "'")
    THEN [st EXCEPT !.in_quote = TRUE, !.quote_char = ch, !.pos = @ + 1]
    ELSE IF st.in_quote
    THEN [st EXCEPT !.in_quote = (ch # st.quote_char), !.pos = @ + 1]
    ELSE [bracket_count_step(st, ch) EXCEPT !.pos = @ + 1]

\* One turn of the loop (lines 190-219).
bracket_step(st, ch) ==
    IF st.returned THEN st
    ELSE IF ~st.in_quote /\ (ch = "\"" \/ ch = "'")
    THEN [st EXCEPT !.in_quote = TRUE, !.quote_char = ch, !.pos = @ + 1]
    ELSE IF st.in_quote
    THEN IF ch = st.quote_char
         THEN [st EXCEPT !.in_quote = FALSE, !.pos = @ + 1]
         ELSE [st EXCEPT !.pos = @ + 1]
    ELSE LET counted == bracket_count_step(st, ch)
         IN  IF counted.brace_count < 0 \/ counted.bracket_count < 0
                \/ counted.paren_count < 0
             THEN [counted EXCEPT !.returned = TRUE, !.pos = @ + 1]
             ELSE [counted EXCEPT !.pos = @ + 1]

\* The loop's variables after the first n characters of s.
RECURSIVE bracket_scan(_, _)
bracket_scan(s, n) ==
    IF n = 0 THEN bracket_init ELSE bracket_step(bracket_scan(s, n - 1), s[n])

validate_brackets(s) ==
    LET st == bracket_scan(s, Len(s))
    IN  IF st.returned THEN FALSE
        ELSE st.brace_count = 0 /\ st.bracket_count = 0 /\ st.paren_count = 0

(***************************************************************************)
(* script.rs: validate_shebang.                                            *)
(***************************************************************************)
\* A faulty variant: the interpreter is not searched for NUL.
validate_shebang_no_nul(s) ==
    LET ls == lines(s)
    IN  IF ls = <<>> THEN TRUE
        ELSE IF ~starts_with(ls[1], <<"#", "!">>) THEN TRUE
        ELSE split_whitespace(SubSeq(ls[1], 3, Len(ls[1]))) # <<>>

validate_shebang(s) ==
    LET ls == lines(s)
    IN  IF ls = <<>> THEN TRUE
        ELSE LET first_line == ls[1]
             IN  IF ~starts_with(first_line, <<"#", "!">>) THEN TRUE
                 ELSE IF len(first_line) < 3 THEN FALSE
                 ELSE LET interpreter_part == SubSeq(first_line, 3, Len(first_line))
                      IN  IF trim(interpreter_part) = <<>> THEN FALSE
                          ELSE LET parts == split_whitespace(interpreter_part)
                               IN  IF parts = <<>> THEN FALSE
                                   ELSE LET interpreter == parts[1]
                                        IN  IF contains(interpreter, <<NUL>>)
                                               \/ interpreter = <<>>
                                            THEN FALSE
                                            ELSE TRUE

(***************************************************************************)
(* script.rs: the string literals of the classifier.                       *)
(***************************************************************************)
S_SHEBANG == <<"#", "!">>

S_PYTHON == <<"p", "y", "t", "h", "o", "n">>

S_PERL == <<"p", "e", "r", "l">>

S_RUBY == <<"r", "u", "b", "y">>

S_SH == <<"s", "h">>

S_BASH == <<"b", "a", "s", "h">>

S_ZSH == <<"z", "s", "h">>

S_IMPORT == <<"i", "m", "p", "o", "r", "t", " ">>

S_DEF == <<"d", "e", "f", " ">>

S_PRINT_PAREN == <<"p", "r", "i", "n", "t", "(">>

S_FROM == <<"f", "r", "o", "m", " ">>

S_CLASS == <<"c", "l", "a", "s", "s", " ">>

S_USE_STRICT == <<"u", "s", "e", " ", "s", "t", "r", "i", "c", "t">>

S_MY == <<"m", "y", " ", "$">>

S_PRINT_QUOTE == <<"p", "r", "i", "n", "t", " ", "\"">>

S_USR_BIN_PERL == <<"#", "!", "/", "u", "s", "r", "/", "b", "i", "n", "/", "p", "e", "r", "l">>

S_PUTS == <<"p", "u", "t", "s", " ">>

S_REQUIRE == <<"r", "e", "q", "u", "i", "r", "e", " ">>

S_END == <<"e", "n", "d">>

S_IF_BRACKET == <<"i", "f", " ", "[">>

S_ECHO == <<"e", "c", "h", "o", " ">>

S_FOR == <<"f", "o", "r", " ">>

S_WHILE == <<"w", "h", "i", "l", "e", " ">>

S_FUNCTION == <<"f", "u", "n", "c", "t", "i", "o", "n", " ">>

(***************************************************************************)
(* script.rs: detect_script_type_internal.  ScriptType is the name of the  *)
(* enum's variant.                                                         *)
(***************************************************************************)
\* A faulty variant: the shebang is matched in the order of the gccrs variant,
\* shell first.
shebang_type_shell_first(shebang) ==
    IF contains(shebang, S_BASH) \/ contains(shebang, S_SH) THEN "Shell"
    ELSE IF contains(shebang, S_PYTHON) THEN "Python"
    ELSE IF contains(shebang, S_PERL) THEN "Perl"
    ELSE IF contains(shebang, S_RUBY) THEN "Ruby"
    ELSE "none"

\* The if-chain on the shebang (lines 52-60); "none" when no branch returns.
shebang_type(shebang) ==
    IF contains(shebang, S_PYTHON) THEN "Python"
    ELSE IF contains(shebang, S_PERL) THEN "Perl"
    ELSE IF contains(shebang, S_RUBY) THEN "Ruby"
    ELSE IF contains(shebang, S_SH) \/ contains(shebang, S_BASH)
            \/ contains(shebang, S_ZSH)
    THEN "Shell"
    ELSE "none"

\* A faulty variant: a text without any marker is Unknown, the policy of the
\* gccrs variant.
content_type_unknown(s) ==
    LET content_lower == to_lowercase(s)
    IN  IF \E m \in {S_IMPORT, S_DEF, S_PRINT_PAREN, S_FROM, S_CLASS} :
              contains(content_lower, m)
        THEN "Python"
        ELSE IF \E m \in {S_USE_STRICT, S_MY, S_PRINT_QUOTE, S_USR_BIN_PERL} :
              contains(content_lower, m)
        THEN "Perl"
        ELSE IF \E m \in {S_DEF, S_PUTS, S_REQUIRE, S_CLASS, S_END} :
              contains(content_lower, m)
        THEN "Ruby"
        ELSE IF \E m \in {S_IF_BRACKET, S_ECHO, S_FOR, S_WHILE, S_FUNCTION} :
              contains(content_lower, m)
        THEN "Shell"
        ELSE "Unknown"

\* The fallback on the content (lines 63-102).
content_type(s) ==
    LET content_lower == to_lowercase(s)
    IN  IF \/ contains(content_lower, S_IMPORT)
           \/ contains(content_lower, S_DEF)
           \/ contains(content_lower, S_PRINT_PAREN)
           \/ contains(content_lower, S_FROM)
           \/ contains(content_lower, S_CLASS)
        THEN "Python"
        ELSE IF \/ contains(content_lower, S_USE_STRICT)
                \/ contains(content_lower, S_MY)
                \/ contains(content_lower, S_PRINT_QUOTE)
                \/ contains(content_lower, S_USR_BIN_PERL)
        THEN "Perl"
        ELSE IF \/ contains(content_lower, S_DEF)
                \/ contains(content_lower, S_PUTS)
                \/ contains(content_lower, S_REQUIRE)
                \/ contains(content_lower, S_CLASS)
                \/ contains(content_lower, S_END)
        THEN "Ruby"
        ELSE IF \/ contains(content_lower, S_IF_BRACKET)
                \/ contains(content_lower, S_ECHO)
                \/ contains(content_lower, S_FOR)
                \/ contains(content_lower, S_WHILE)
                \/ contains(content_lower, S_FUNCTION)
        THEN "Shell"
        ELSE "Shell"

detect_script_type_internal(s) ==
    LET ls == lines(s)
    IN  IF ls = <<>> THEN "Unknown"
        ELSE LET first_line == ls[1]
                 by_shebang ==
                     IF starts_with(first_line, S_SHEBANG)
                     THEN shebang_type(SubSeq(first_line, 3, Len(first_line)))
                     ELSE "none"
             IN  IF by_shebang # "none" THEN by_shebang ELSE content_type(s)

\* rust_detect_script_type: the entry point.  The buffer is null or holds
\* script_len bytes, which are the UTF-8 encoding of the text s or are not
\* valid UTF-8.
rust_detect_script_type(is_null, script_len, valid_utf8, s) ==
    IF is_null \/ script_len <= 0 THEN "Unknown"
    ELSE IF ~valid_utf8 THEN "Unknown"
    ELSE detect_script_type_internal(s)

(***************************************************************************)
(* script.rs: the type-specific checks and validate_script_syntax_internal.*)
(***************************************************************************)
S_IF == <<"i", "f", " ">>

S_FI == <<"f", "i">>

S_DONE == <<"d", "o", "n", "e">>

\* script.rs validate_shell_syntax: the loop over the lines has an empty
\* body and changes nothing; the function returns true.
validate_shell_syntax(s) == TRUE

validate_python_syntax(s) == TRUE

validate_perl_syntax(s) == TRUE

validate_ruby_syntax(s) == TRUE

\* gccrs-src/runepkg_script.rs validate_shell_syntax: one turn of the loop
\* over the lines; the else-if chain counts a line for the first test it
\* passes.
shell_count_step(st, line) ==
    LET trimmed == trim(line)
    IN  IF starts_with(trimmed, S_IF) THEN [st EXCEPT !.if_count = @ + 1]
        ELSE IF trimmed = S_FI THEN [st EXCEPT !.fi_count = @ + 1]
        ELSE IF starts_with(trimmed, S_FOR) THEN [st EXCEPT !.for_count = @ + 1]
        ELSE IF trimmed = S_DONE THEN [st EXCEPT !.done_count = @ + 1]
        ELSE st

\* The counters after the first n lines.
RECURSIVE shell_count_scan(_, _)
shell_count_scan(ls, n) ==
    IF n = 0
    THEN [if_count |-> 0, fi_count |-> 0, for_count |-> 0, done_count |-> 0]
    ELSE shell_count_step(shell_count_scan(ls, n - 1), ls[n])

validate_shell_syntax_gccrs(s) ==
    LET ls == lines(s)
        st == shell_count_scan(ls, Len(ls))
    IN  st.if_count = st.fi_count /\ st.for_count = st.done_count

\* The match on the script type (lines 149-155).
validate_by_type(script_type, s) ==
    CASE script_type = "Shell" -> validate_shell_syntax(s)
      [] script_type = "Python" -> validate_python_syntax(s)
      [] script_type = "Perl" -> validate_perl_syntax(s)
      [] script_type = "Ruby" -> validate_ruby_syntax(s)
      [] script_type = "Unknown" -> TRUE

\* A faulty variant: the brackets are not checked.
validate_script_syntax_internal_no_brackets(s) ==
    IF ~validate_quotes(s) THEN FALSE
    ELSE IF ~validate_shebang(s) THEN FALSE
    ELSE validate_by_type(detect_script_type_internal(s), s)

validate_script_syntax_internal(s) ==
    IF ~validate_quotes(s) THEN FALSE
    ELSE IF ~validate_brackets(s) THEN FALSE
    ELSE IF ~validate_shebang(s) THEN FALSE
    ELSE LET script_type == detect_script_type_internal(s)
         IN  validate_by_type(script_type, s)

(***************************************************************************)
(* The texts of the model: concatenations of a few fragments.              *)
(***************************************************************************)
RECURSIVE Flatten(_)
Flatten(fs) == IF fs = <<>> THEN <<>> ELSE Head(fs) \o Flatten(Tail(fs))

TextsOf(frags, n) ==
    { Flatten(fs) : fs \in UNION { [1..k -> frags] : k \in 0..n } }

MaxShebangFrags == 4

MaxArgsBound == 3

ShebangFrags ==
    { <<"#", "!">>, <<"#">>, <<" ">>, <<"\t">>, <<"\n">>, <<"\r", "\n">>,
      <<"/", "a">>, <<" ", "-", "e">>, <<NUL>>, <<NBSP>> }

ShebangTexts == TextsOf(ShebangFrags, MaxShebangFrags)

(***************************************************************************)
(* The shebang parser and the shebang check applied to a text.             *)
(***************************************************************************)
InitShebang ==
    /\ script \in ShebangTexts
    /\ call = NoArgs
    /\ theme_set = load_defaults
    /\ heap = no_allocations
    /\ child = no_child
    /\ pc = "start"
    /\ ret = None

ExtractShebangInterpreter ==
    /\ pc = "start"
    /\ pc' = "extract_shebang_interpreter"
    /\ ret' = extract_shebang_interpreter(script)
    /\ UNCHANGED <<script, call, theme_set, child, heap>>

ExtractShebangArgs ==
    /\ pc = "start"
    /\ \E m \in 0..MaxArgsBound :
          /\ call' = [max_args |-> m]
          /\ ret' = extract_shebang_args(script, m)
    /\ pc' = "extract_shebang_args"
    /\ UNCHANGED <<script, theme_set, child, heap>>

ValidateShebang ==
    /\ pc = "start"
    /\ pc' = "validate_shebang"
    /\ ret' = validate_shebang(script)
    /\ UNCHANGED <<script, call, theme_set, child, heap>>

NextShebang ==
    \/ ExtractShebangInterpreter
    \/ ExtractShebangArgs
    \/ ValidateShebang

SpecShebang == InitShebang /\ [][NextShebang]_vars

(***************************************************************************)
(* What the claims say of a shebang line, stated on positions of the text. *)
(***************************************************************************)
\* The first line: the characters before the first "\n", without a "\r"
\* that stands right before that "\n".
ClaimFirstLine(s) ==
    LET nl == { i \in 1..Len(s) : s[i] = "\n" }
        e == IF nl = {} THEN Len(s)
             ELSE (CHOOSE i \in nl : \A j \in nl : i <= j) - 1
        e2 == IF nl # {} /\ e >= 1 /\ s[e] = "\r" THEN e - 1 ELSE e
    IN  SubSeq(s, 1, e2)

ClaimHasShebang(s) ==
    LET fl == ClaimFirstLine(s)
    IN  Len(fl) >= 2 /\ fl[1] = "#" /\ fl[2] = "!"

\* The text of the first line after the marker.
ClaimAfterMarker(s) == SubSeq(ClaimFirstLine(s), 3, Len(ClaimFirstLine(s)))

\* The whitespace-delimited tokens of r that start at position i or later,
\* as the set of their <<first, last>> positions.
ClaimTokenSpans(r) ==
    { p \in (1..Len(r)) \X (1..Len(r)) :
        /\ p[1] <= p[2]
        /\ \A k \in p[1]..p[2] : ~is_whitespace(r[k])
        /\ (p[1] = 1 \/ is_whitespace(r[p[1] - 1]))
        /\ (p[2] = Len(r) \/ is_whitespace(r[p[2] + 1])) }

\* The tokens of r in their order: the k-th token is the one with k - 1
\* tokens before it.
ClaimTokens(r) ==
    LET spans == ClaimTokenSpans(r)
    IN  [ k \in 1..Cardinality(spans) |->
            LET p == CHOOSE q \in spans :
                        Cardinality({ o \in spans : o[1] < q[1] }) = k - 1
            IN  SubSeq(r, p[1], p[2]) ]

Min(a, b) == IF a <= b THEN a ELSE b

\* C1: extract_shebang_interpreter returns nothing when the first line does
\* not start with "#!" or when only whitespace (or nothing) follows the
\* marker; otherwise it returns exactly the first whitespace-delimited token
\* after the marker on the first line.
C1_Interpreter ==
    pc = "extract_shebang_interpreter" =>
        IF ~ClaimHasShebang(script) THEN ret = None
        ELSE LET tokens == ClaimTokens(ClaimAfterMarker(script))
             IN  IF tokens = <<>> THEN ret = None ELSE ret = Some(tokens[1])

\* A shebang whose token follows whitespace, with a second line that holds
\* another word.
C1_Witness ==
    /\ pc = "extract_shebang_interpreter"
    /\ script = <<"#", "!", " ", "-", "e", "\n", "/", "a">>
    /\ ret = Some(<<"-", "e">>)

\* C2 as stated: with tokens t0..tn and maximum m >= 1 the result is t0
\* followed by t1..tk, k = min(n, m): the maximum bounds the tokens after
\* the interpreter.
C2_MaxBoundsArguments ==
    (pc = "extract_shebang_args" /\ call.max_args >= 1 /\ ClaimHasShebang(script)) =>
        LET tokens == ClaimTokens(ClaimAfterMarker(script))
            n == Len(tokens) - 1
        IN  tokens # <<>> => ret = SubSeq(tokens, 1, 1 + Min(n, call.max_args))

\* C2 as amended: the maximum bounds the tokens returned, the interpreter
\* included: the result is t0 followed by t1..tk, k = min(n, m - 1), in
\* their order.
C2_MaxBoundsTokens ==
    (pc = "extract_shebang_args" /\ call.max_args >= 1 /\ ClaimHasShebang(script)) =>
        LET tokens == ClaimTokens(ClaimAfterMarker(script))
            n == Len(tokens) - 1
        IN  tokens # <<>> =>
              /\ ret[1] = tokens[1]
              /\ Len(ret) = 1 + Min(n, call.max_args - 1)
              /\ \A k \in 1..Len(ret) : ret[k] = tokens[k]

\* Three tokens and a maximum of two: the second argument is cut off.
C2_Witness ==
    /\ pc = "extract_shebang_args"
    /\ call.max_args = 2
    /\ script = <<"#", "!", "/", "a", " ", "-", "e", " ", "-", "e">>
    /\ ret = << <<"/", "a">>, <<"-", "e">> >>

\* A text without a shebang, or with one whose first token exists and
\* holds no NUL.
ClaimShebangOk(s) ==
    IF ~ClaimHasShebang(s) THEN TRUE
    ELSE LET tokens == ClaimTokens(ClaimAfterMarker(s))
         IN  /\ tokens # <<>>
             /\ tokens[1] # <<>>
             /\ \A k \in 1..Len(tokens[1]) : tokens[1][k] # NUL

\* C8: validate_shebang accepts every text whose first line does not start
\* with "#!" (the empty text too); a text whose first line starts with "#!"
\* it accepts iff a first whitespace-delimited token follows the marker and
\* holds no NUL.
C8_ValidateShebang ==
    pc = "validate_shebang" =>
        /\ ret = ClaimShebangOk(script)
        /\ ~ClaimHasShebang(script) => ret = TRUE

\* A shebang whose interpreter holds a NUL is refused.
C8_Witness ==
    /\ pc = "validate_shebang"
    /\ script = <<"#", "!", "/", "a", NUL, "\n">>
    /\ ret = FALSE

(***************************************************************************)
(* The classifier applied to a text, directly and through its entry point. *)
(***************************************************************************)
MaxDetectFrags == 3

DetectFrags ==
    { S_SHEBANG, S_PYTHON, S_PERL, S_RUBY, S_SH, <<"\n">>, <<"x">>,
      <<"\n">> \o S_IMPORT, S_DEF, S_CLASS, S_USE_STRICT, S_PUTS, S_END, S_ECHO,
      <<"D", "E", "F", " ">>,
      <<"#", "!", "/", "U", "S", "R", "/", "B", "I", "N", "/", "P", "E", "R", "L">> }

DetectTexts == TextsOf(DetectFrags, MaxDetectFrags)

InitDetect ==
    /\ script \in DetectTexts
    /\ call = NoArgs
    /\ theme_set = load_defaults
    /\ heap = no_allocations
    /\ child = no_child
    /\ pc = "start"
    /\ ret = None

DetectScriptType ==
    /\ pc = "start"
    /\ pc' = "detect_script_type_internal"
    /\ ret' = detect_script_type_internal(script)
    /\ UNCHANGED <<script, call, theme_set, child, heap>>

\* The caller passes a null or a non-null buffer, a length that is negative,
\* zero or the length of the buffer, and bytes that are valid UTF-8 or not.
RustDetectScriptType ==
    /\ pc = "start"
    /\ \E is_null \in BOOLEAN, valid_utf8 \in BOOLEAN,
          script_len \in {-1, 0, len(script)} :
          /\ call' = [is_null |-> is_null, script_len |-> script_len,
                      valid_utf8 |-> valid_utf8]
          /\ ret' = rust_detect_script_type(is_null, script_len, valid_utf8, script)
    /\ pc' = "rust_detect_script_type"
    /\ UNCHANGED <<script, theme_set, child, heap>>

NextDetect ==
    \/ DetectScriptType
    \/ RustDetectScriptType

SpecDetect == InitDetect /\ [][NextDetect]_vars

(***************************************************************************)
(* What the claims say of the classifier.                                  *)
(***************************************************************************)
\* The type of the first of python, perl, ruby, sh/bash/zsh that occurs in
\* the shebang r, "none" when none does.
ClaimShebangMatch(r) ==
    LET occurs(m) == \E i \in 1..Len(r) : \E j \in i..Len(r) : SubSeq(r, i, j) = m
    IN  CASE occurs(S_PYTHON) -> "Python"
          [] ~occurs(S_PYTHON) /\ occurs(S_PERL) -> "Perl"
          [] ~occurs(S_PYTHON) /\ ~occurs(S_PERL) /\ occurs(S_RUBY) -> "Ruby"
          [] ~occurs(S_PYTHON) /\ ~occurs(S_PERL) /\ ~occurs(S_RUBY)
             /\ (occurs(S_SH) \/ occurs(S_BASH) \/ occurs(S_ZSH)) -> "Shell"
          [] OTHER -> "none"

ClaimShebangType(s) ==
    IF ClaimHasShebang(s) THEN ClaimShebangMatch(ClaimAfterMarker(s)) ELSE "none"

\* Texts put after the shebang line, with markers of every language.
ClaimTails ==
    { <<>>, S_IMPORT, S_USE_STRICT, S_PUTS \o <<"\n">> \o S_END, S_ECHO,
      S_PYTHON, <<"x", "\n">> \o S_SHEBANG \o S_RUBY }

\* C3: when the shebang matches one of python, perl, ruby, sh/bash/zsh the
\* result is the type of the first match in that order, whatever the lines
\* after the shebang hold.
C3_ShebangPriority ==
    (pc = "detect_script_type_internal" /\ ClaimShebangType(script) # "none") =>
        /\ ret = ClaimShebangType(script)
        /\ \A tail \in ClaimTails :
              detect_script_type_internal(ClaimFirstLine(script) \o <<"\n">> \o tail)
                = ret

\* A Perl shebang followed by a line with a Python marker: Perl.
C3_Witness ==
    /\ pc = "detect_script_type_internal"
    /\ script = S_SHEBANG \o S_PERL \o <<"\n">> \o S_IMPORT
    /\ ret = "Perl"
    /\ content_type(script) = "Python"

\* C4 as stated: without a shebang match the result is the first language
\* in the order Python, Perl, Ruby, Shell one of whose listed markers occurs
\* in the lower-cased text; `import ` and `def ` are Python markers only
\* together, and `def ` is a Ruby marker.
C4_ContentMarkers ==
    (pc = "detect_script_type_internal" /\ script # <<>>
       /\ ClaimShebangType(script) = "none") =>
        LET low == to_lowercase(script)
            has(m) == contains(low, m)
            python == \/ has(S_PRINT_PAREN) \/ has(S_FROM) \/ has(S_CLASS)
                      \/ (has(S_IMPORT) /\ has(S_DEF))
            perl == has(S_USE_STRICT) \/ has(S_MY) \/ has(S_PRINT_QUOTE)
            ruby == has(S_DEF) \/ has(S_PUTS) \/ has(S_REQUIRE) \/ has(S_END)
            shell == \/ has(S_IF_BRACKET) \/ has(S_ECHO) \/ has(S_FOR)
                     \/ has(S_WHILE) \/ has(S_FUNCTION)
        IN  /\ python => ret = "Python"
            /\ (~python /\ perl) => ret = "Perl"
            /\ (~python /\ ~perl /\ ruby) => ret = "Ruby"
            /\ (~python /\ ~perl /\ ~ruby /\ shell) => ret = "Shell"

\* No marker of the content fallback occurs in the lower-cased text.
ClaimNoContentMarker(s) ==
    \A m \in {S_IMPORT, S_DEF, S_PRINT_PAREN, S_FROM, S_CLASS, S_USE_STRICT,
              S_MY, S_PRINT_QUOTE, S_USR_BIN_PERL, S_PUTS, S_REQUIRE, S_END,
              S_IF_BRACKET, S_ECHO, S_FOR, S_WHILE, S_FUNCTION} :
        ~contains(to_lowercase(s), m)

\* C5: the classifier returns Unknown for the text without lines and for no
\* other text; a text that matches neither by its shebang nor by a content
\* marker is Shell; the entry point returns Unknown only for invalid input
\* (a null buffer, a length <= 0, bytes that are not UTF-8).
C5_NeverUnknown ==
    /\ pc = "detect_script_type_internal" =>
          /\ (ret = "Unknown") <=> (Len(script) = 0)
          /\ (Len(script) > 0 /\ ClaimShebangType(script) = "none"
                /\ ClaimNoContentMarker(script)) => ret = "Shell"
    /\ pc = "rust_detect_script_type" =>
          /\ (ret = "Unknown") <=>
                (call.is_null \/ call.script_len <= 0 \/ ~call.valid_utf8)

\* A text of one line without any marker, classified directly: Shell.
C5_Witness ==
    /\ pc = "detect_script_type_internal"
    /\ script = <<"x", "\n", "x">>
    /\ ret = "Shell"

(***************************************************************************)
(* The quote check and the bracket check applied to a text.                *)
(***************************************************************************)
MaxBalanceLen == 4

BalanceChars == { "'", "\"", "\\", "(", ")", "[", "]", "{", "}", "x" }

BalanceTexts == UNION { [1..k -> BalanceChars] : k \in 0..MaxBalanceLen }

InitBalance ==
    /\ script \in BalanceTexts
    /\ call = NoArgs
    /\ theme_set = load_defaults
    /\ heap = no_allocations
    /\ child = no_child
    /\ pc = "start"
    /\ ret = None

ValidateQuotes ==
    /\ pc = "start"
    /\ pc' = "validate_quotes"
    /\ ret' = validate_quotes(script)
    /\ UNCHANGED <<script, call, theme_set, child, heap>>

ValidateBrackets ==
    /\ pc = "start"
    /\ pc' = "validate_brackets"
    /\ ret' = validate_brackets(script)
    /\ UNCHANGED <<script, call, theme_set, child, heap>>

NextBalance ==
    \/ ValidateQuotes
    \/ ValidateBrackets

SpecBalance == InitBalance /\ [][NextBalance]_vars

(***************************************************************************)
(* What the claims say of the quote check and of the bracket check.        *)
(***************************************************************************)
\* Position i holds a character made inert by a backslash: the character
\* before it is a backslash that is not inert itself.
RECURSIVE ClaimInert(_, _)
ClaimInert(s, i) == i > 1 /\ s[i - 1] = "\\" /\ ~ClaimInert(s, i - 1)

\* The quoted region open after the first n characters: "none", or the
\* quote character that opened it.
RECURSIVE ClaimRegion(_, _)
ClaimRegion(s, n) ==
    IF n = 0 THEN "none"
    ELSE LET before == ClaimRegion(s, n - 1)
         IN  IF ClaimInert(s, n) \/ s[n] \notin {"'", "\""} THEN before
             ELSE IF before = "none" THEN s[n]
             ELSE IF before = s[n] THEN "none"
             ELSE before

ClaimQuotesBalanced(s) == ClaimRegion(s, Len(s)) = "none"

\* C6: validate_quotes scans left to right with at most one quoted region
\* open at a time; an unescaped quote opens or closes a region of its kind,
\* a quote of the other kind inside a region is ignored, a backslash makes
\* the next character inert wherever it stands; the result is true iff no
\* region is open at the end.
C6_ValidateQuotes ==
    pc = "validate_quotes" =>
        /\ ret = ClaimQuotesBalanced(script)
        /\ \A n \in 0..Len(script) :
              LET st == quote_scan(script, n)
              IN  /\ ~(st.in_single_quote /\ st.in_double_quote)
                  /\ st.in_single_quote <=> (ClaimRegion(script, n) = "'")
                  /\ st.in_double_quote <=> (ClaimRegion(script, n) = "\"")

\* A backslash inside single quotes makes the closing quote inert: the
\* region stays open.
C6_Witness ==
    /\ pc = "validate_quotes"
    /\ script = <<"'", "\\", "'">>
    /\ ret = FALSE

\* The quote character open after the first n characters as validate_brackets
\* follows quotes: a quote opens a region that the next quote of the same
\* kind closes.
RECURSIVE ClaimBracketRegion(_, _)
ClaimBracketRegion(s, n) ==
    IF n = 0 THEN "none"
    ELSE LET before == ClaimBracketRegion(s, n - 1)
         IN  IF s[n] \notin {"'", "\""} THEN before
             ELSE IF before = "none" THEN s[n]
             ELSE IF before = s[n] THEN "none"
             ELSE before

\* How many of the first n characters are ch outside quoted regions.
ClaimCount(s, n, ch) ==
    Cardinality({ i \in 1..n : s[i] = ch /\ ClaimBracketRegion(s, i) = "none" })

BracketPairs == { <<"{", "}">>, <<"[", "]">>, <<"(", ")">> }

\* The positions at which a counter is negative: more closers than openers
\* among the characters up to there.
ClaimNegativeAt(s) ==
    { n \in 1..Len(s) :
        \E p \in BracketPairs : ClaimCount(s, n, p[2]) > ClaimCount(s, n, p[1]) }

ClaimBracketsBalanced(s) ==
    /\ ClaimNegativeAt(s) = {}
    /\ \A p \in BracketPairs :
          ClaimCount(s, Len(s), p[1]) = ClaimCount(s, Len(s), p[2])

\* C7: validate_brackets keeps a counter for each of {}, [] and () over the
\* characters outside quoted regions; it returns false at the first
\* character that makes a counter negative, and otherwise returns true iff
\* the three counters are zero at the end.
C7_ValidateBrackets ==
    pc = "validate_brackets" =>
        LET st == bracket_scan(script, Len(script))
            neg == ClaimNegativeAt(script)
        IN  /\ ret = ClaimBracketsBalanced(script)
            /\ st.returned <=> (neg # {})
            /\ neg # {} =>
                  (ret = FALSE /\ st.pos \in neg /\ \A n \in neg : st.pos <= n)
            /\ neg = {} =>
                  /\ st.pos = Len(script)
                  /\ \A p \in BracketPairs :
                        LET count == IF p[1] = "{" THEN st.brace_count
                                     ELSE IF p[1] = "[" THEN st.bracket_count
                                     ELSE st.paren_count
                        IN  count = ClaimCount(script, Len(script), p[1])
                                      - ClaimCount(script, Len(script), p[2])

\* A closer before its opener: false at the first character, although the
\* totals are equal.
C7_Witness ==
    /\ pc = "validate_brackets"
    /\ script = <<")", "(", "x">>
    /\ ret = FALSE
    /\ bracket_scan(script, Len(script)).pos = 1

(***************************************************************************)
(* The syntax validator applied to a text.                                 *)
(***************************************************************************)
MaxSyntaxFrags == 3

SyntaxFrags ==
    { S_SHEBANG, S_SH, <<"\n">>, <<" ">>, <<"i", "f", " ", "x">>, S_FI,
      <<"f", "o", "r", " ", "x">>, S_DONE, <<"'">>, <<"[">>, <<"]">>, <<"{">>,
      <<NUL>>, S_IMPORT, S_USE_STRICT, S_PUTS }

SyntaxTexts == TextsOf(SyntaxFrags, MaxSyntaxFrags)

InitSyntax ==
    /\ script \in SyntaxTexts
    /\ call = NoArgs
    /\ theme_set = load_defaults
    /\ heap = no_allocations
    /\ child = no_child
    /\ pc = "start"
    /\ ret = None

ValidateScriptSyntax ==
    /\ pc = "start"
    /\ pc' = "validate_script_syntax_internal"
    /\ ret' = validate_script_syntax_internal(script)
    /\ UNCHANGED <<script, call, theme_set, child, heap>>

ValidateShellSyntax ==
    /\ pc = "start"
    /\ pc' = "validate_shell_syntax"
    /\ ret' = validate_shell_syntax(script)
    /\ UNCHANGED <<script, call, theme_set, child, heap>>

ValidateShellSyntaxGccrs ==
    /\ pc = "start"
    /\ pc' = "validate_shell_syntax_gccrs"
    /\ ret' = validate_shell_syntax_gccrs(script)
    /\ UNCHANGED <<script, call, theme_set, child, heap>>

NextSyntax ==
    \/ ValidateScriptSyntax
    \/ ValidateShellSyntax
    \/ ValidateShellSyntaxGccrs

SpecSyntax == InitSyntax /\ [][NextSyntax]_vars

(***************************************************************************)
(* What the claims say of the syntax validator.                            *)
(***************************************************************************)
\* The type-specific check that the classifier selects for the text.
ClaimTypeCheck(s) ==
    LET script_type == detect_script_type_internal(s)
    IN  CASE script_type = "Shell" -> validate_shell_syntax(s)
          [] script_type = "Python" -> validate_python_syntax(s)
          [] script_type = "Perl" -> validate_perl_syntax(s)
          [] script_type = "Ruby" -> validate_ruby_syntax(s)
          [] OTHER -> TRUE

\* C9: validate_script_syntax_internal returns true iff the quote check,
\* the bracket check, the shebang check and the type-specific check of the
\* detected type all pass; a text with an unclosed quote or an unmatched
\* bracket is reported invalid.
C9_AllChecks ==
    pc = "validate_script_syntax_internal" =>
        /\ ret = (/\ ClaimQuotesBalanced(script)
                  /\ ClaimBracketsBalanced(script)
                  /\ ClaimShebangOk(script)
                  /\ ClaimTypeCheck(script))
        /\ ret = (/\ validate_quotes(script)
                  /\ validate_brackets(script)
                  /\ validate_shebang(script)
                  /\ ClaimTypeCheck(script))

\* A shell script that fails the bracket check alone is invalid.
C9_Witness ==
    /\ pc = "validate_script_syntax_internal"
    /\ script = S_SHEBANG \o S_SH \o <<"[">>
    /\ validate_quotes(script)
    /\ ~validate_brackets(script)
    /\ validate_shebang(script)
    /\ ret = FALSE

\* The number of lines of s whose trimmed form satisfies the test: starts
\* with the prefix, or is exactly the word.
ClaimLinesStarting(s, prefix) ==
    Cardinality({ k \in 1..Len(lines(s)) : starts_with(trim(lines(s)[k]), prefix) })

ClaimLinesEqual(s, word) ==
    Cardinality({ k \in 1..Len(lines(s)) : trim(lines(s)[k]) = word })

ClaimShellBalanced(s) ==
    /\ ClaimLinesStarting(s, S_IF) = ClaimLinesEqual(s, S_FI)
    /\ ClaimLinesStarting(s, S_FOR) = ClaimLinesEqual(s, S_DONE)

\* C10 as stated: for a text classified as Shell the type-specific check of
\* validate_script_syntax_internal passes iff the `if ` lines are as many as
\* the `fi` lines and the `for ` lines as many as the `done` lines, so that a
\* Shell script with an `if ` line and no `fi` line fails validation.
C10_ShellStructure ==
    /\ (pc = "validate_shell_syntax"
          /\ detect_script_type_internal(script) = "Shell") =>
          ret = ClaimShellBalanced(script)
    /\ (pc = "validate_script_syntax_internal"
          /\ detect_script_type_internal(script) = "Shell"
          /\ ~ClaimShellBalanced(script)) =>
          ret = FALSE

\* The gccrs variant of the shell check passes iff the openers are as many
\* as the closers.
Gccrs_ShellCounts ==
    pc = "validate_shell_syntax_gccrs" => ret = ClaimShellBalanced(script)

(***************************************************************************)
(* script.rs: the metadata extractor.                                      *)
(***************************************************************************)
\* The outcome of a function that may panic: it returned a value, or it
\* panicked (a str index that is not on a character boundary).
Ok(x) == [panicked |-> FALSE, value |-> x]

Panicked == [panicked |-> TRUE, value |-> <<>>]

\* str::find: the byte offset of the first occurrence of p in s, which
\* contains p.
find(s, p) ==
    LET i == CHOOSE k \in 1..(Len(s) - Len(p) + 1) :
                 /\ SubSeq(s, k, k + Len(p) - 1) = p
                 /\ \A j \in 1..(k - 1) : SubSeq(s, j, j + Len(p) - 1) # p
    IN  len(SubSeq(s, 1, i - 1))

\* str::is_char_boundary: byte offset b is the start of a character of s or
\* its end.
is_char_boundary(s, b) == \E k \in 0..Len(s) : len(SubSeq(s, 1, k)) = b

\* &s[b..] for a byte offset b on a character boundary.
slice_from(s, b) ==
    LET k == CHOOSE j \in 0..Len(s) : len(SubSeq(s, 1, j)) = b
    IN  SubSeq(s, k + 1, Len(s))

\* The field patterns and the field names, in the order they are tried.
metadata_patterns ==
    <<
       [pattern |-> <<"a", "u", "t", "h", "o", "r", ":">>,
        field_name |-> <<"A", "u", "t", "h", "o", "r">>],
       [pattern |-> <<"v", "e", "r", "s", "i", "o", "n", ":">>,
        field_name |-> <<"V", "e", "r", "s", "i", "o", "n">>],
       [pattern |-> <<"d", "e", "s", "c", "r", "i", "p", "t", "i", "o", "n", ":">>,
        field_name |-> <<"D", "e", "s", "c", "r", "i", "p", "t", "i", "o", "n">>],
       [pattern |-> <<"d", "a", "t", "e", ":">>,
        field_name |-> <<"D", "a", "t", "e">>],
       [pattern |-> <<"l", "i", "c", "e", "n", "s", "e", ":">>,
        field_name |-> <<"L", "i", "c", "e", "n", "s", "e">>],
       [pattern |-> <<"c", "o", "p", "y", "r", "i", "g", "h", "t", ":">>,
        field_name |-> <<"C", "o", "p", "y", "r", "i", "g", "h", "t">>],
       [pattern |-> <<"f", "i", "l", "e", "n", "a", "m", "e", ":">>,
        field_name |-> <<"F", "i", "l", "e", "n", "a", "m", "e">>],
       [pattern |-> <<"u", "s", "a", "g", "e", ":">>,
        field_name |-> <<"U", "s", "a", "g", "e">>],
       [pattern |-> <<"p", "u", "r", "p", "o", "s", "e", ":">>,
        field_name |-> <<"P", "u", "r", "p", "o", "s", "e">>],
       [pattern |-> <<"n", "o", "t", "e", ":">>,
        field_name |-> <<"N", "o", "t", "e">>],
       [pattern |-> <<"t", "o", "d", "o", ":">>,
        field_name |-> <<"T", "o", "d", "o">>],
       [pattern |-> <<"f", "i", "x", "m", "e", ":">>,
        field_name |-> <<"F", "i", "x", "m", "e">>],
       [pattern |-> <<"b", "u", "g", ":">>,
        field_name |-> <<"B", "u", "g">>],
       [pattern |-> <<"c", "r", "e", "a", "t", "e", "d", ":">>,
        field_name |-> <<"C", "r", "e", "a", "t", "e", "d">>],
       [pattern |-> <<"m", "o", "d", "i", "f", "i", "e", "d", ":">>,
        field_name |-> <<"M", "o", "d", "i", "f", "i", "e", "d">>],
       [pattern |-> <<"u", "p", "d", "a", "t", "e", "d", ":">>,
        field_name |-> <<"U", "p", "d", "a", "t", "e", "d">>]
    >>

\* format!("{}: {}", field_name, value)
format_entry(field_name, value) == field_name \o <<":", " ">> \o value

\* The loop of extract_metadata_from_comment from pattern k on.  The offset
\* found in the lower-cased copy indexes the original comment.
RECURSIVE comment_scan(_, _, _)
comment_scan(comment, comment_lower, k) ==
    IF k > Len(metadata_patterns) THEN Ok(None)
    ELSE LET pattern == metadata_patterns[k].pattern
             field_name == metadata_patterns[k].field_name
             next == comment_scan(comment, comment_lower, k + 1)
         IN  IF contains(comment_lower, pattern)
             THEN LET value_start == find(comment_lower, pattern) + len(pattern)
                  IN  IF value_start < len(comment)
                      THEN IF ~is_char_boundary(comment, value_start)
                           THEN Panicked
                           ELSE LET value == trim(slice_from(comment, value_start))
                                IN  IF value # <<>>
                                    THEN Ok(Some(format_entry(field_name, value)))
                                    ELSE next
                      ELSE next
             ELSE next

extract_metadata_from_comment(comment) ==
    comment_scan(comment, to_lowercase(comment), 1)

\* The number the line index is compared with in extract_metadata_internal.
metadata_window == 50

S_SHEBANG_SLASH == <<"#", "!", "/">>

S_INTERPRETER == <<"I", "n", "t", "e", "r", "p", "r", "e", "t", "e", "r", ":", " ">>

S_NO_METADATA ==
    <<"N", "o", " ", "m", "e", "t", "a", "d", "a", "t", "a", " ",
      "f", "o", "u", "n", "d">>

\* Before the first line: no entry, in the header, the loop running.
metadata_init ==
    [metadata |-> <<>>, in_header |-> TRUE, broke |-> FALSE, panicked |-> FALSE]

\* A faulty variant: a new entry is put before the entries collected so far.
metadata_step_prepend(st, line_num, line) ==
    IF st.broke \/ st.panicked THEN st
    ELSE IF line_num > metadata_window THEN [st EXCEPT !.broke = TRUE]
    ELSE LET trimmed == trim(line)
         IN  IF trimmed = <<>> THEN st
             ELSE IF starts_with(trimmed, <<"#">>)
             THEN LET meta == extract_metadata_from_comment(trim(Tail(trimmed)))
                  IN  IF meta.panicked THEN [st EXCEPT !.panicked = TRUE]
                      ELSE IF meta.value # None
                      THEN [st EXCEPT !.metadata = <<meta.value[1]>> \o @]
                      ELSE st
             ELSE IF st.in_header /\ starts_with(trimmed, S_SHEBANG_SLASH)
             THEN [st EXCEPT !.metadata = <<S_INTERPRETER \o trimmed>> \o @]
             ELSE [st EXCEPT !.in_header = FALSE]

\* One turn of the loop of extract_metadata_internal on the line with
\* index line_num (from 0).
metadata_step(st, line_num, line) ==
    IF st.broke \/ st.panicked THEN st
    ELSE IF line_num > metadata_window THEN [st EXCEPT !.broke = TRUE]
    ELSE LET trimmed == trim(line)
         IN  IF trimmed = <<>> THEN st
             ELSE IF starts_with(trimmed, <<"#">>)
             THEN LET meta == extract_metadata_from_comment(trim(Tail(trimmed)))
                  IN  IF meta.panicked THEN [st EXCEPT !.panicked = TRUE]
                      ELSE IF meta.value # None
                      THEN [st EXCEPT !.metadata = Append(@, meta.value[1])]
                      ELSE st
             ELSE IF st.in_header /\ starts_with(trimmed, S_SHEBANG_SLASH)
             THEN [st EXCEPT !.metadata = Append(@, S_INTERPRETER \o trimmed)]
             ELSE [st EXCEPT !.in_header = FALSE]

RECURSIVE metadata_scan(_, _, _)
metadata_scan(ls, line_num, st) ==
    IF st.broke \/ st.panicked \/ line_num >= Len(ls) THEN st
    ELSE metadata_scan(ls, line_num + 1, metadata_step(st, line_num, ls[line_num + 1]))

\* [String]::join("\n")
RECURSIVE join(_)
join(v) ==
    IF v = <<>> THEN <<>>
    ELSE IF Len(v) = 1 THEN v[1]
    ELSE v[1] \o <<"\n">> \o join(Tail(v))

extract_metadata_internal(s) ==
    LET st == metadata_scan(lines(s), 0, metadata_init)
    IN  IF st.panicked THEN Panicked
        ELSE IF st.metadata = <<>> THEN Ok(S_NO_METADATA)
        ELSE Ok(join(st.metadata))

(***************************************************************************)
(* The metadata extractor applied to a text: some blank lines, then a few  *)
(* lines, each a comment with or without a field, a shebang, code or       *)
(* blank.                                                                  *)
(***************************************************************************)
MaxMetaLines == 3

MetaLines ==
    { <<"#", " ", "A", "u", "t", "h", "o", "r", ":", " ", "b">>,
      <<"#", "v", "e", "r", "s", "i", "o", "n", ":", "1">>,
      <<"#", " ", "n", "o", "t", "e", ":">>,
      <<"#", "c">>,
      <<"#", "!", "/", "a">>,
      <<"x">>,
      <<>> }

\* The numbers of blank lines before the chosen lines: none, or enough for
\* the chosen lines to lie around the end of the window.
MetaPads ==
    {0} \cup { metadata_window - d : d \in 0..(MaxMetaLines - 1) }
        \cup {metadata_window + 1}

RECURSIVE BlankLines(_)
BlankLines(n) == IF n = 0 THEN <<>> ELSE <<"\n">> \o BlankLines(n - 1)

RECURSIVE WithNewlines(_)
WithNewlines(ls) ==
    IF ls = <<>> THEN <<>> ELSE Head(ls) \o <<"\n">> \o WithNewlines(Tail(ls))

MetaTexts ==
    { BlankLines(p) \o WithNewlines(ls) :
        p \in MetaPads,
        ls \in UNION { [1..k -> MetaLines] : k \in 0..MaxMetaLines } }

InitMetadata ==
    /\ script \in MetaTexts
    /\ call = NoArgs
    /\ theme_set = load_defaults
    /\ heap = no_allocations
    /\ child = no_child
    /\ pc = "start"
    /\ ret = Ok(<<>>)

ExtractMetadata ==
    /\ pc = "start"
    /\ pc' = "extract_metadata_internal"
    /\ ret' = extract_metadata_internal(script)
    /\ UNCHANGED <<script, call, theme_set, child, heap>>

\* A second call on the same text; the first result is kept for comparison.
ExtractMetadataAgain ==
    /\ pc = "extract_metadata_internal"
    /\ pc' = "extract_metadata_internal again"
    /\ call' = [first |-> ret]
    /\ ret' = extract_metadata_internal(script)
    /\ UNCHANGED <<script, theme_set, child, heap>>

NextMetadata ==
    \/ ExtractMetadata
    \/ ExtractMetadataAgain

SpecMetadata == InitMetadata /\ [][NextMetadata]_vars

(***************************************************************************)
(* What the claims say of the extractor, stated on the lines of the text.  *)
(***************************************************************************)
\* The positions of the line ends of s.
ClaimNewlines(s) == { i \in 1..Len(s) : s[i] = "\n" }

\* The text of the first n lines of s: s up to its n-th line end, all of s
\* when it has fewer.
ClaimFirstLines(s, n) ==
    IF Cardinality(ClaimNewlines(s)) < n THEN s
    ELSE IF n = 0 THEN <<>>
    ELSE LET e == CHOOSE i \in ClaimNewlines(s) :
                      Cardinality({ j \in ClaimNewlines(s) : j <= i }) = n
         IN  SubSeq(s, 1, e)

\* C11: the extractor inspects at most the first 50 lines: the text after
\* the 50th line has no part in its result, so the result is the result on
\* the first 50 lines alone.
C11_WindowOfFifty ==
    pc = "extract_metadata_internal"
        => ret = extract_metadata_internal(ClaimFirstLines(script, 50))

\* A line of code: not blank, and neither a comment nor a shebang (both
\* start with "#").
ClaimIsCode(line) == trim(line) # <<>> /\ Head(trim(line)) # "#"

\* The header of s: the lines before its first line of code, all lines when
\* it has none.
ClaimHeader(s) ==
    LET ls == lines(s)
        codes == { k \in 1..Len(ls) : ClaimIsCode(ls[k]) }
    IN  IF codes = {} THEN s
        ELSE WithNewlines(SubSeq(ls, 1,
                 (CHOOSE k \in codes : \A j \in codes : k <= j) - 1))

\* C12: the extractor stops at the first line of code: a comment after it
\* contributes no entry, so the result is the result on the header alone.
C12_StopsAtCode ==
    pc = "extract_metadata_internal"
        => ret = extract_metadata_internal(ClaimHeader(script))

\* The entries of an output: its parts between "\n"; an output without
\* entries is the sentence "No metadata found".
RECURSIVE ClaimEntries(_)
ClaimEntries(out) ==
    IF out = S_NO_METADATA THEN <<>>
    ELSE IF ClaimNewlines(out) = {} THEN <<out>>
    ELSE LET e == CHOOSE i \in ClaimNewlines(out) :
                      \A j \in ClaimNewlines(out) : i <= j
         IN  <<SubSeq(out, 1, e - 1)>> \o ClaimEntries(SubSeq(out, e + 1, Len(out)))

\* The entry a line gives by itself, None when it gives none.
ClaimEntryOf(line) ==
    LET t == trim(line)
    IN  IF t = <<>> \/ Head(t) # "#" THEN None
        ELSE extract_metadata_from_comment(trim(Tail(t))).value

\* C13: the entries are in the order of the lines they come from, each line
\* giving at most one entry: there are lines k[1] < k[2] < ... of the text,
\* one for each entry, with entry i the entry of line k[i].  A second call
\* on the same text returns the same output.
C13_LineOrder ==
    /\ pc \in {"extract_metadata_internal", "extract_metadata_internal again"}
          => /\ ~ret.panicked
             /\ LET ls == lines(script)
                    es == ClaimEntries(ret.value)
                    src == { k \in 1..Len(ls) : ClaimEntryOf(ls[k]) # None }
                IN  \E f \in [1..Len(es) -> src] :
                       /\ \A i, j \in 1..Len(es) : i < j => f[i] < f[j]
                       /\ \A i \in 1..Len(es) : ClaimEntryOf(ls[f[i]]) = Some(es[i])
    /\ pc = "extract_metadata_internal again" => ret = call.first

\* Two different entries came out of a text with two field comments.
C13_Witness ==
    /\ pc = "extract_metadata_internal again"
    /\ Len(ClaimEntries(ret.value)) = 2
    /\ ClaimEntries(ret.value)[1] # ClaimEntries(ret.value)[2]

(***************************************************************************)
(* The comment parser applied to a comment: field patterns, spaces, a      *)
(* letter, and characters whose lower-case form has another length in      *)
(* bytes (U+0130: 2 bytes become 3; U+212A: 3 bytes become 1) or that take *)
(* 2 bytes (U+00E9).                                                       *)
(***************************************************************************)
MaxCommentFrags == 4

CommentFrags ==
    { <<"a", "u", "t", "h", "o", "r", ":">>, <<"N", "O", "T", "E", ":">>,
      <<" ">>, <<"b">>, <<"U+0130">>, <<"U+212A">>, <<"U+00E9">> }

CommentTexts == TextsOf(CommentFrags, MaxCommentFrags)

InitComment ==
    /\ script \in CommentTexts
    /\ call = NoArgs
    /\ theme_set = load_defaults
    /\ heap = no_allocations
    /\ child = no_child
    /\ pc = "start"
    /\ ret = Ok(None)

ExtractMetadataFromComment ==
    /\ pc = "start"
    /\ pc' = "extract_metadata_from_comment"
    /\ ret' = extract_metadata_from_comment(script)
    /\ UNCHANGED <<script, call, theme_set, child, heap>>

\* The comment as line 1 of a text, after "#".
ExtractMetadataOfCommentLine ==
    /\ pc = "start"
    /\ pc' = "extract_metadata_internal"
    /\ ret' = extract_metadata_internal(<<"#">> \o script)
    /\ UNCHANGED <<script, call, theme_set, child, heap>>

NextComment ==
    \/ ExtractMetadataFromComment
    \/ ExtractMetadataOfCommentLine

SpecComment == InitComment /\ [][NextComment]_vars

\* Pattern p stands in comment c at position i, whatever the case of its
\* letters.
ClaimMatchAt(c, p, i) ==
    /\ i + Len(p) - 1 <= Len(c)
    /\ to_lowercase(SubSeq(c, i, i + Len(p) - 1)) = p

\* The text of c that follows pattern p standing at position i, trimmed.
ClaimValueAfter(c, p, i) == trim(SubSeq(c, i + Len(p), Len(c)))

\* C14: for every comment, the parser returns normally; an entry it emits is
\* (FieldName, value) for a pattern of the vocabulary that stands in the
\* comment, with value the trimmed text of the comment after that pattern,
\* and value is not empty; a comment with a pattern followed by a value
\* gives an entry.
C14_ValueFollowsPattern ==
    pc = "extract_metadata_from_comment"
        => /\ ~ret.panicked
           /\ ret.value # None
                 => \E k \in 1..Len(metadata_patterns), i \in 1..Len(script) :
                       LET p == metadata_patterns[k].pattern
                       IN  /\ ClaimMatchAt(script, p, i)
                           /\ ClaimValueAfter(script, p, i) # <<>>
                           /\ ret.value
                                = Some(metadata_patterns[k].field_name
                                       \o <<":", " ">>
                                       \o ClaimValueAfter(script, p, i))
           /\ (\E k \in 1..Len(metadata_patterns), i \in 1..Len(script) :
                  LET p == metadata_patterns[k].pattern
                  IN  /\ ClaimMatchAt(script, p, i)
                      /\ \A j \in 1..(i - 1) : ~ClaimMatchAt(script, p, j)
                      /\ ClaimValueAfter(script, p, i) # <<>>)
                 => ret.value # None

\* The same statement for the comments of ASCII characters alone, where the
\* offsets of the lower-cased copy are the offsets of the comment.
C14_Ascii ==
    (\A i \in 1..Len(script) : len_utf8(script[i]) = 1)
        => C14_ValueFollowsPattern

(***************************************************************************)
(* gccrs-src/runepkg_highlight.rs: the line highlighter.  Its output is a  *)
(* text in which the color codes stand as the characters they are made of. *)
(***************************************************************************)
ESC == "U+001B"

COLOR_RESET == <<ESC, "[", "0", "m">>

COLOR_COMMENT == <<ESC, "[", "3", "2", "m">>

COLOR_STRING == <<ESC, "[", "3", "3", "m">>

COLOR_KEYWORD == <<ESC, "[", "3", "4", "m">>

COLOR_VARIABLE == <<ESC, "[", "3", "6", "m">>

COLOR_OPERATOR == <<ESC, "[", "3", "5", "m">>

HighlightScheme == {"Nano", "Vim", "Default"}

scheme_to_intensity(scheme) ==
    CASE scheme = "Nano" -> FALSE
      [] scheme = "Vim" -> TRUE
      [] scheme = "Default" -> FALSE

ASCII_DIGITS == {"0", "1", "2", "3", "4", "5", "6", "7", "8", "9"}

\* char::is_alphabetic, on the characters of the model.
is_alphabetic(c) ==
    \/ \E k \in 1..26 : c = ASCII_UPPER[k] \/ c = ASCII_LOWER[k]
    \/ c \in {"U+00E9", "U+0130", "U+212A"}

\* char::is_alphanumeric
is_alphanumeric(c) == is_alphabetic(c) \/ c \in ASCII_DIGITS

is_shell_keyword(word) ==
    word \in { <<"i", "f">>, <<"t", "h", "e", "n">>, <<"e", "l", "s", "e">>,
               <<"e", "l", "i", "f">>, <<"f", "i">>, <<"f", "o", "r">>,
               <<"w", "h", "i", "l", "e">>, <<"u", "n", "t", "i", "l">>,
               <<"d", "o">>, <<"d", "o", "n", "e">>, <<"c", "a", "s", "e">>,
               <<"e", "s", "a", "c">>,
               <<"f", "u", "n", "c", "t", "i", "o", "n">>,
               <<"r", "e", "t", "u", "r", "n">>, <<"l", "o", "c", "a", "l">>,
               <<"e", "x", "p", "o", "r", "t">>,
               <<"d", "e", "c", "l", "a", "r", "e">>,
               <<"r", "e", "a", "d", "o", "n", "l", "y">>,
               <<"e", "c", "h", "o">>, <<"p", "r", "i", "n", "t", "f">>,
               <<"r", "e", "a", "d">>, <<"t", "e", "s", "t">>,
               <<"t", "r", "u", "e">>, <<"f", "a", "l", "s", "e">> }

\* The loop that looks for the closing quote, from index i (from 0) of
\* chars: the index it stops at and the result so far.
RECURSIVE string_scan(_, _, _, _)
string_scan(chars, i, quote, result) ==
    IF i < Len(chars) /\ chars[i + 1] # quote
    THEN IF chars[i + 1] = "\\" /\ i + 1 < Len(chars)
         THEN string_scan(chars, i + 2, quote,
                          result \o <<chars[i + 1], chars[i + 2]>>)
         ELSE string_scan(chars, i + 1, quote, Append(result, chars[i + 1]))
    ELSE [i |-> i, result |-> result]

\* The loop that collects a variable name.
RECURSIVE variable_scan(_, _, _)
variable_scan(chars, i, result) ==
    IF i < Len(chars) /\ (is_alphanumeric(chars[i + 1])
                             \/ chars[i + 1] \in {"_", "{", "}"})
    THEN variable_scan(chars, i + 1, Append(result, chars[i + 1]))
    ELSE [i |-> i, result |-> result]

\* A faulty variant: a word is a run of letters alone, so it ends before a
\* digit or a "_".
RECURSIVE word_end_letters_only(_, _)
word_end_letters_only(chars, i) ==
    IF i < Len(chars) /\ is_alphabetic(chars[i + 1])
    THEN word_end_letters_only(chars, i + 1)
    ELSE i

\* The loop that finds the end of a word: the index after its last
\* character.
RECURSIVE word_end(_, _)
word_end(chars, i) ==
    IF i < Len(chars) /\ (is_alphanumeric(chars[i + 1]) \/ chars[i + 1] = "_")
    THEN word_end(chars, i + 1)
    ELSE i

\* The main loop of highlight_line_simple from index i (from 0).  At "#"
\* the rest of the line is taken as &line[i..], i counting characters and
\* the index counting bytes.
RECURSIVE highlight_loop(_, _, _, _)
highlight_loop(line, chars, i, result) ==
    IF ~(i < Len(chars)) THEN Ok(result)
    ELSE LET ch == chars[i + 1]
         IN  IF ch = "#"
             THEN IF is_char_boundary(line, i)
                  THEN Ok(result \o COLOR_COMMENT \o slice_from(line, i)
                                 \o COLOR_RESET)
                  ELSE Panicked
             ELSE IF ch = "\"" \/ ch = "'"
             THEN LET s == string_scan(chars, i + 1, ch,
                                       result \o COLOR_STRING \o <<ch>>)
                      closed == IF s.i < Len(chars)
                                THEN Append(s.result, chars[s.i + 1])
                                ELSE s.result
                  IN  highlight_loop(line, chars, s.i + 1, closed \o COLOR_RESET)
             ELSE IF ch = "$"
             THEN LET v == variable_scan(chars, i + 1,
                                         result \o COLOR_VARIABLE \o <<ch>>)
                  IN  highlight_loop(line, chars, v.i, v.result \o COLOR_RESET)
             ELSE IF is_alphabetic(ch)
             THEN LET e == word_end(chars, i)
                      word == SubSeq(chars, i + 1, e)
                  IN  IF is_shell_keyword(word)
                      THEN highlight_loop(line, chars, e,
                               result \o COLOR_KEYWORD \o word \o COLOR_RESET)
                      ELSE highlight_loop(line, chars, e, result \o word)
             ELSE IF ch \in {"=", "<", ">", "!", "&", "|"}
             THEN highlight_loop(line, chars, i + 1,
                      result \o COLOR_OPERATOR \o <<ch>> \o COLOR_RESET)
             ELSE highlight_loop(line, chars, i + 1, Append(result, ch))

highlight_line_simple(line, intense) == highlight_loop(line, line, 0, <<>>)

\* The loop of highlight_script_internal over the lines from line k on.
RECURSIVE highlight_lines(_, _, _, _)
highlight_lines(ls, k, intense, result) ==
    IF k > Len(ls) THEN Ok(result)
    ELSE LET highlighted_line == highlight_line_simple(ls[k], intense)
         IN  IF highlighted_line.panicked THEN Panicked
             ELSE highlight_lines(ls, k + 1, intense,
                      result \o highlighted_line.value \o <<"\n">>)

highlight_script_internal(script_content, scheme) ==
    highlight_lines(lines(script_content), 1, scheme_to_intensity(scheme), <<>>)

(***************************************************************************)
(* The highlighter applied to a text.                                      *)
(***************************************************************************)
MaxHighlightFrags == 3

HighlightFrags ==
    { <<"#">>, <<"'">>, <<"\"">>, <<"\\">>, <<"$">>, <<"=">>, <<" ">>,
      <<"x">>, <<"_">>, <<"1">>, <<"{">>, <<"i", "f">>, <<"\n">>,
      <<"\r", "\n">>, <<NBSP>>, <<"U+00E9">> }

HighlightTexts == TextsOf(HighlightFrags, MaxHighlightFrags)

InitHighlight ==
    /\ script \in HighlightTexts
    /\ call = NoArgs
    /\ theme_set = load_defaults
    /\ heap = no_allocations
    /\ child = no_child
    /\ pc = "start"
    /\ ret = Ok(<<>>)

\* highlight_line_simple is handed lines: texts without "\n".
HighlightLineSimple ==
    /\ pc = "start"
    /\ \A i \in 1..Len(script) : script[i] # "\n"
    /\ \E scheme \in HighlightScheme :
          /\ call' = [scheme |-> scheme]
          /\ ret' = highlight_line_simple(script, scheme_to_intensity(scheme))
    /\ pc' = "highlight_line_simple"
    /\ UNCHANGED <<script, theme_set, child, heap>>

HighlightScriptInternal ==
    /\ pc = "start"
    /\ \E scheme \in HighlightScheme :
          /\ call' = [scheme |-> scheme]
          /\ ret' = highlight_script_internal(script, scheme)
    /\ pc' = "highlight_script_internal"
    /\ UNCHANGED <<script, theme_set, child, heap>>

NextHighlight ==
    \/ HighlightLineSimple
    \/ HighlightScriptInternal

SpecHighlight == InitHighlight /\ [][NextHighlight]_vars

(***************************************************************************)
(* What the claims say of the highlighter.                                 *)
(***************************************************************************)
\* The positions of out where a color code starts, and the length of a
\* color code: ESC, "[", two digits at most, "m".
ClaimCodeLen(out, i) ==
    IF i + 3 <= Len(out) /\ out[i] = ESC /\ out[i + 1] = "["
          /\ out[i + 2] \in ASCII_DIGITS /\ out[i + 3] = "m"
    THEN 4
    ELSE IF i + 4 <= Len(out) /\ out[i] = ESC /\ out[i + 1] = "["
               /\ out[i + 2] \in ASCII_DIGITS /\ out[i + 3] \in ASCII_DIGITS
               /\ out[i + 4] = "m"
    THEN 5
    ELSE 0

\* out without its color codes.
RECURSIVE ClaimStripFrom(_, _)
ClaimStripFrom(out, i) ==
    IF i > Len(out) THEN <<>>
    ELSE IF ClaimCodeLen(out, i) > 0
    THEN ClaimStripFrom(out, i + ClaimCodeLen(out, i))
    ELSE <<out[i]>> \o ClaimStripFrom(out, i + 1)

ClaimStrip(out) == ClaimStripFrom(out, 1)

\* C15: for every line and every scheme, highlight_line_simple returns
\* normally, its output without the color codes is the line, and the output
\* is the same for the three schemes.
C15_Lossless ==
    pc = "highlight_line_simple"
        => /\ ~ret.panicked
           /\ ClaimStrip(ret.value) = script
           /\ \A scheme \in HighlightScheme :
                 highlight_line_simple(script, scheme_to_intensity(scheme)) = ret

\* The same statement for the lines that have no character of more than
\* one byte before their first "#".
C15_AsciiBeforeComment ==
    (\A i \in 1..Len(script) :
        (\A j \in 1..(i - 1) : script[j] # "#") => len_utf8(script[i]) = 1)
        => C15_Lossless

(***************************************************************************)
(* script.rs: the script statistics.                                       *)
(***************************************************************************)
S_STATS_TITLE ==
    <<"S", "c", "r", "i", "p", "t", " ", "S", "t", "a", "t", "i",
      "s", "t", "i", "c", "s", ":", "\n", "T", "y", "p", "e", ":",
      " ">>

S_TOTAL_LINES ==
    <<"\n", "T", "o", "t", "a", "l", " ", "l", "i", "n", "e", "s",
      ":", " ">>

S_CODE_LINES ==
    <<"\n", "C", "o", "d", "e", " ", "l", "i", "n", "e", "s", ":",
      " ">>

S_COMMENT_LINES ==
    <<"\n", "C", "o", "m", "m", "e", "n", "t", " ", "l", "i", "n",
      "e", "s", ":", " ">>

S_BLANK_LINES ==
    <<"\n", "B", "l", "a", "n", "k", " ", "l", "i", "n", "e", "s",
      ":", " ">>

S_TOTAL_CHARS ==
    <<"\n", "T", "o", "t", "a", "l", " ", "c", "h", "a", "r", "a",
      "c", "t", "e", "r", "s", ":", " ">>

\* {:?} of a ScriptType
debug_script_type(type) ==
    CASE type = "Shell" -> <<"S", "h", "e", "l", "l">>
      [] type = "Python" -> <<"P", "y", "t", "h", "o", "n">>
      [] type = "Perl" -> <<"P", "e", "r", "l">>
      [] type = "Ruby" -> <<"R", "u", "b", "y">>
      [] type = "Unknown" -> <<"U", "n", "k", "n", "o", "w", "n">>

DIGITS == <<"0", "1", "2", "3", "4", "5", "6", "7", "8", "9">>

\* {} of an unsigned number: its decimal digits.
RECURSIVE to_string(_)
to_string(n) ==
    IF n < 10 THEN <<DIGITS[n + 1]>>
    ELSE to_string(n \div 10) \o <<DIGITS[(n % 10) + 1]>>

stats_init == [comment_lines |-> 0, blank_lines |-> 0, code_lines |-> 0]

\* A faulty variant: the comment test is not under the else of the blank
\* test, so a blank line is counted as a line of code too.
stats_step_no_else(st, line) ==
    LET trimmed == trim(line)
        st1 == IF trimmed = <<>> THEN [st EXCEPT !.blank_lines = @ + 1] ELSE st
    IN  IF starts_with(trimmed, <<"#">>)
        THEN [st1 EXCEPT !.comment_lines = @ + 1]
        ELSE [st1 EXCEPT !.code_lines = @ + 1]

\* One turn of the counting loop of get_script_stats_internal.
stats_step(st, line) ==
    LET trimmed == trim(line)
    IN  IF trimmed = <<>> THEN [st EXCEPT !.blank_lines = @ + 1]
        ELSE IF starts_with(trimmed, <<"#">>)
        THEN [st EXCEPT !.comment_lines = @ + 1]
        ELSE [st EXCEPT !.code_lines = @ + 1]

RECURSIVE stats_scan(_, _, _)
stats_scan(ls, k, st) ==
    IF k > Len(ls) THEN st ELSE stats_scan(ls, k + 1, stats_step(st, ls[k]))

get_script_stats_internal(s) ==
    LET ls == lines(s)
        total_lines == Len(ls)
        st == stats_scan(ls, 1, stats_init)
        total_chars == len(s)
        script_type == detect_script_type_internal(s)
    IN  S_STATS_TITLE \o debug_script_type(script_type)
          \o S_TOTAL_LINES \o to_string(total_lines)
          \o S_CODE_LINES \o to_string(st.code_lines)
          \o S_COMMENT_LINES \o to_string(st.comment_lines)
          \o S_BLANK_LINES \o to_string(st.blank_lines)
          \o S_TOTAL_CHARS \o to_string(total_chars)

(***************************************************************************)
(* The statistics of a text.                                               *)
(***************************************************************************)
MaxStatsFrags == 4

StatsFrags ==
    { <<"\n">>, <<"\r", "\n">>, <<"#">>, <<" ">>, <<"x">>, <<"U+00E9">>,
      <<"U+3000">> }

StatsTexts == TextsOf(StatsFrags, MaxStatsFrags)

InitStats ==
    /\ script \in StatsTexts
    /\ call = NoArgs
    /\ theme_set = load_defaults
    /\ heap = no_allocations
    /\ child = no_child
    /\ pc = "start"
    /\ ret = <<>>

GetScriptStats ==
    /\ pc = "start"
    /\ pc' = "get_script_stats_internal"
    /\ ret' = get_script_stats_internal(script)
    /\ UNCHANGED <<script, call, theme_set, child, heap>>

NextStats == GetScriptStats

SpecStats == InitStats /\ [][NextStats]_vars

(***************************************************************************)
(* What the claims say of the statistics, read off the report.             *)
(***************************************************************************)
\* The number written in decimal digits ds.
RECURSIVE ClaimNumber(_)
ClaimNumber(ds) ==
    IF ds = <<>> THEN 0
    ELSE 10 * ClaimNumber(SubSeq(ds, 1, Len(ds) - 1))
           + (CHOOSE d \in 0..9 : DIGITS[d + 1] = ds[Len(ds)])

\* The number the report out gives after the label: the digits between the
\* label and the next "\n" or the end.
ClaimReported(out, label) ==
    LET i == CHOOSE k \in 1..Len(out) : SubSeq(out, k, k + Len(label) - 1) = label
        from == i + Len(label)
        ends == { e \in from..Len(out) : out[e] = "\n" }
        to == IF ends = {} THEN Len(out)
              ELSE (CHOOSE e \in ends : \A f \in ends : e <= f) - 1
    IN  ClaimNumber(SubSeq(out, from, to))

ClaimBlank(line) == \A i \in 1..Len(line) : is_whitespace(line[i])

ClaimComment(line) ==
    \E i \in 1..Len(line) :
        line[i] = "#" /\ \A j \in 1..(i - 1) : is_whitespace(line[j])

\* C16: each line is counted once, as blank (nothing but whitespace), as
\* comment (its first character after whitespace is "#") or as code (the
\* rest); the three counts add up to the number of lines.
C16_LinePartition ==
    pc = "get_script_stats_internal"
        => LET ls == lines(script)
               total == ClaimReported(ret, S_TOTAL_LINES)
               code == ClaimReported(ret, S_CODE_LINES)
               comment == ClaimReported(ret, S_COMMENT_LINES)
               blank == ClaimReported(ret, S_BLANK_LINES)
           IN  /\ total = Len(ls)
               /\ blank = Cardinality({ k \in 1..Len(ls) : ClaimBlank(ls[k]) })
               /\ comment = Cardinality({ k \in 1..Len(ls) : ClaimComment(ls[k]) })
               /\ code = Cardinality({ k \in 1..Len(ls) :
                             ~ClaimBlank(ls[k]) /\ ~ClaimComment(ls[k]) })
               /\ code + comment + blank = total
               /\ total >= 0 /\ code >= 0 /\ comment >= 0 /\ blank >= 0

\* A text with a line of each kind has been counted.
C16_Witness ==
    /\ pc = "get_script_stats_internal"
    /\ ClaimReported(ret, S_CODE_LINES) = 1
    /\ ClaimReported(ret, S_COMMENT_LINES) = 1
    /\ ClaimReported(ret, S_BLANK_LINES) = 1
    /\ ClaimReported(ret, S_TOTAL_LINES) = 3

\* C17: the reported total of characters is the number of characters of the
\* text, line separators included, also when a character takes more than
\* one byte.
C17_TotalCharacters ==
    pc = "get_script_stats_internal"
        => ClaimReported(ret, S_TOTAL_CHARS) = Len(script)

(***************************************************************************)
(* The exported entry points.  Each takes the buffer as three facts (the   *)
(* pointer is null, the length, the bytes are valid UTF-8) and the text    *)
(* the bytes hold when they are valid.  A returned value is a record: a    *)
(* null pointer, a number, a string, a ScriptType, or the end of the       *)
(* process by a panic that reaches the extern "C" boundary.                *)
(***************************************************************************)
c_null == [tag |-> "null", int |-> 0, text |-> <<>>, type |-> "", addr |-> 0]

c_int(n) == [tag |-> "int", int |-> n, text |-> <<>>, type |-> "", addr |-> 0]

c_string(t) == [tag |-> "string", int |-> 0, text |-> t, type |-> "", addr |-> 0]

c_type(t) == [tag |-> "ScriptType", int |-> 0, text |-> <<>>, type |-> t, addr |-> 0]

c_abort == [tag |-> "abort", int |-> 0, text |-> <<>>, type |-> "", addr |-> 0]

\* CString::new(t) and into_raw: an error, so a null pointer, when t holds
\* a NUL.
cstring_into_raw(t) ==
    IF \E i \in 1..Len(t) : t[i] = NUL THEN c_null ELSE c_string(t)

S_BIN_SH == <<"/", "b", "i", "n", "/", "s", "h">>

\* script.rs
rust_validate_script_syntax(is_null, script_len, valid_utf8, s) ==
    IF is_null \/ script_len <= 0 THEN c_int(0)
    ELSE IF ~valid_utf8 THEN c_int(0)
    ELSE c_int(IF validate_script_syntax_internal(s) THEN 1 ELSE 0)

rust_extract_script_metadata(is_null, script_len, valid_utf8, s) ==
    IF is_null \/ script_len <= 0 THEN c_null
    ELSE IF ~valid_utf8 THEN c_null
    ELSE LET metadata == extract_metadata_internal(s)
         IN  IF metadata.panicked THEN c_abort
             ELSE cstring_into_raw(metadata.value)

rust_get_script_stats(is_null, script_len, valid_utf8, s) ==
    IF is_null \/ script_len <= 0 THEN c_null
    ELSE IF ~valid_utf8 THEN c_null
    ELSE cstring_into_raw(get_script_stats_internal(s))

\* exec.rs.  What the interpreter process does is not the program's: the
\* spawn, the write to its input or the wait fails, or it ends by a signal
\* or with an exit code, which status.code() hands on whatever it is.
ExitCodes == 0..255

ProcessOutcomes ==
    { [spawn |-> FALSE, write |-> FALSE, wait |-> FALSE, code |-> None],
      [spawn |-> TRUE, write |-> FALSE, wait |-> FALSE, code |-> None],
      [spawn |-> TRUE, write |-> TRUE, wait |-> FALSE, code |-> None],
      [spawn |-> TRUE, write |-> TRUE, wait |-> TRUE, code |-> None] }
        \cup { [spawn |-> TRUE, write |-> TRUE, wait |-> TRUE, code |-> Some(c)] :
                  c \in ExitCodes }

\* The value of a call whose process has the outcome given; a call whose
\* process never ends has no value (see ExecWaitChild).
execute_script_internal(script_content, interpreter, outcome) ==
    IF ~outcome.spawn THEN -1
    ELSE IF ~outcome.write THEN -1
    ELSE IF ~outcome.wait THEN -1
    ELSE IF outcome.code = Some(0) THEN 0
    ELSE IF outcome.code = None THEN -1
    ELSE outcome.code[1]

\* Option::unwrap_or("/bin/sh")
interpreter_or_sh(s) ==
    IF extract_shebang_interpreter(s) = None THEN S_BIN_SH
    ELSE extract_shebang_interpreter(s)[1]

\* The tests before the interpreter is started (lines 20-42): the buffer
\* is a text, and a NUL is found in it.
reaches_execute_script_internal(is_null, script_len, valid_utf8, s) ==
    /\ ~(is_null \/ script_len <= 0)
    /\ valid_utf8
    /\ \E i \in 1..Len(s) : s[i] = NUL

rust_execute_script_from_memory(is_null, script_len, valid_utf8, s, outcome) ==
    IF is_null \/ script_len <= 0 THEN c_int(-1)
    ELSE IF ~valid_utf8 THEN c_int(-1)
    ELSE IF ~(\E i \in 1..Len(s) : s[i] = NUL) THEN c_int(-1)
    ELSE c_int(execute_script_internal(s, interpreter_or_sh(s), outcome))

rust_parse_shebang(is_null, script_len, valid_utf8, s) ==
    IF is_null \/ script_len <= 0 THEN c_null
    ELSE IF ~valid_utf8 THEN c_null
    ELSE cstring_into_raw(interpreter_or_sh(s))

rust_validate_script_before_exec(is_null, script_len, valid_utf8, s) ==
    IF is_null \/ script_len <= 0 THEN c_int(0)
    ELSE IF ~valid_utf8 THEN c_int(0)
    ELSE IF s = <<>> THEN c_int(0)
    ELSE IF ~starts_with(s, S_SHEBANG) THEN c_int(0)
    ELSE IF extract_shebang_interpreter(s) # None
    THEN LET interpreter == extract_shebang_interpreter(s)[1]
         IN  IF interpreter = <<>> \/ contains(interpreter, <<NUL>>)
             THEN c_int(0)
             ELSE c_int(1)
    ELSE c_int(0)

\* lib.rs rust_get_version: the version text in a new CString, handed to
\* the caller at every call.
VERSION_SYNTECT ==
    <<"r", "u", "n", "e", "p", "k", "g", "-", "h", "i", "g", "h", "l", "i",
      "g", "h", "t", " ", "0", ".", "1", ".", "0", " ", "(", "s", "y", "n",
      "t", "e", "c", "t", "-", "p", "o", "w", "e", "r", "e", "d", ")">>

rust_get_version == cstring_into_raw(VERSION_SYNTECT)

\* gccrs-src/runepkg_highlight.rs rust_get_version: a pointer to a static
\* text, no allocation.
VERSION_CLEAN_SLATE ==
    <<"r", "u", "n", "e", "p", "k", "g", "-", "h", "i", "g", "h", "l", "i",
      "g", "h", "t", " ", "1", ".", "0", ".", "0", " ", "(", "c", "l", "e",
      "a", "n", "-", "s", "l", "a", "t", "e", ")">>

rust_get_version_gccrs == [c_string(VERSION_CLEAN_SLATE) EXCEPT !.tag = "static"]

\* An allocation handed to the caller: the allocator that made it (the
\* allocator of CString, or malloc of libc), whether it is live, the
\* allocator it was released with, and what it holds: a string, or the
\* addresses of the strings of an array.
allocation(allocator, text, elems) ==
    [allocator |-> allocator, live |-> TRUE, released_by |-> "none",
     releases |-> 0, text |-> text, elems |-> elems]

\* The allocation released with the allocator by.
released(a, by) ==
    [a EXCEPT !.live = FALSE, !.released_by = by, !.releases = @ + 1]

\* CString::into_raw of a returned string: the heap with it, and the value
\* with its address.
heap_with(h, r) ==
    IF r.tag = "string" THEN Append(h, allocation("CString", r.text, <<>>)) ELSE h

handed(h, r) == IF r.tag = "string" THEN [r EXCEPT !.addr = Len(h) + 1] ELSE r

\* rust_free_string_array on the array at address ptr: libc::free of each
\* string up to the null that ends the array, then of the array.
free_string_array(h, ptr) ==
    [a \in 1..Len(h) |->
        IF a = ptr \/ (\E i \in 1..Len(h[ptr].elems) : h[ptr].elems[i] = a)
        THEN released(h[a], "libc")
        ELSE h[a]]

\* The allocations of rust_parse_shebang_with_args for the tokens args, on
\* the heap h: the array by malloc, then a CString for each token; a token
\* with a NUL ends the loop, and the strings made so far and the array are
\* released with libc::free.  The heap after the call and the value
\* returned.
parse_shebang_allocations(h, args, malloc_ok) ==
    IF ~malloc_ok THEN [heap |-> h, ret |-> c_null]
    ELSE LET bad == { i \in 1..Len(args) : contains(args[i], <<NUL>>) }
             n == IF bad = {} THEN Len(args)
                  ELSE (CHOOSE i \in bad : \A j \in bad : i <= j) - 1
             arg_array == Len(h) + 1
             strings == [i \in 1..n |-> arg_array + i]
             made == h \o <<allocation("libc", <<>>, strings)>>
                       \o [i \in 1..n |-> allocation("CString", args[i], <<>>)]
         IN  IF bad = {}
             THEN [heap |-> made,
                   ret |-> [tag |-> "array", int |-> 0, text |-> <<>>,
                            type |-> "", addr |-> arg_array]]
             ELSE [heap |-> [a \in 1..Len(made) |->
                                 IF a >= arg_array THEN released(made[a], "libc")
                                 ELSE made[a]],
                   ret |-> c_null]

rust_parse_shebang_with_args(h, is_null, script_len, valid_utf8, s, max_args, malloc_ok) ==
    IF is_null \/ script_len <= 0 \/ max_args <= 0
    THEN [heap |-> h, ret |-> c_null]
    ELSE IF ~valid_utf8 THEN [heap |-> h, ret |-> c_null]
    ELSE LET args == extract_shebang_args(s, max_args)
         IN  IF args = <<>> THEN [heap |-> h, ret |-> c_null]
             ELSE parse_shebang_allocations(h, args, malloc_ok)

\* rust_free_string and rust_free_highlighted_string: CString::from_raw of
\* a pointer that is not null.
free_string(h, ptr) ==
    [a \in 1..Len(h) |-> IF a = ptr THEN released(h[a], "CString") ELSE h[a]]

\* lib.rs.  The colors are those of the syntect theme, which is not part of
\* the source: the escaped text of a line is the line after a color code.
LinesWithEndings(s) ==
    LET ends == { i \in 1..Len(s) : s[i] = "\n" } \cup {Len(s)}
        starts == { e + 1 : e \in { i \in ends : i < Len(s) } } \cup {1}
    IN  IF s = <<>> THEN {}
        ELSE { <<b, CHOOSE e \in ends : e >= b /\ \A f \in ends : f >= b => e <= f>> :
                  b \in starts }

RECURSIVE syntect_escaped(_, _, _)
syntect_escaped(s, from, color) ==
    IF from > Len(s) THEN <<>>
    ELSE LET span == CHOOSE p \in LinesWithEndings(s) : p[1] = from
         IN  color \o SubSeq(s, span[1], span[2])
                   \o syntect_escaped(s, span[2] + 1, color)

rust_highlight_shell_script_syntect(is_null, script_len, valid_utf8, s, color) ==
    IF is_null \/ script_len <= 0 THEN c_null
    ELSE IF ~valid_utf8 THEN c_null
    ELSE cstring_into_raw(syntect_escaped(s, 1, color))

\* gccrs-src/runepkg_highlight.rs
rust_highlight_shell_script(is_null, script_len, valid_utf8, s, scheme) ==
    IF is_null \/ script_len <= 0 THEN c_null
    ELSE IF ~valid_utf8 THEN c_null
    ELSE LET highlighted == highlight_script_internal(s, scheme)
         IN  IF highlighted.panicked THEN c_abort
             ELSE cstring_into_raw(highlighted.value)

\* The placeholder entry points of gccrs-src/runepkg_highlight.rs: none
\* looks at its arguments.
rust_execute_script_from_memory_placeholder(is_null, script_len, valid_utf8, s) ==
    c_int(0)

rust_parse_shebang_placeholder(is_null, script_len, valid_utf8, s) == c_null

rust_detect_script_type_placeholder(is_null, script_len, valid_utf8, s) ==
    cstring_into_raw(<<"s", "h", "e", "l", "l">>)

rust_validate_script_syntax_placeholder(is_null, script_len, valid_utf8, s) ==
    c_int(1)

rust_extract_script_metadata_placeholder(is_null, script_len, valid_utf8, s) ==
    c_null

rust_get_script_stats_placeholder(is_null, script_len, valid_utf8, s) ==
    cstring_into_raw(<<"l", "i", "n", "e", "s", "=", "0", ",",
                       "c", "h", "a", "r", "s", "=", "0", ",",
                       "w", "o", "r", "d", "s", "=", "0">>)

\* gccrs-src/runepkg_script.rs
S_USE_WARNINGS == <<"u", "s", "e", " ", "w", "a", "r", "n", "i", "n", "g", "s">>

S_SUB == <<"s", "u", "b", " ">>

S_SHEBANG_BIN == <<"#", "!", "/", "b", "i", "n", "/">>

\* The first line that is not blank, trimmed; the empty text when there is
\* none.
RECURSIVE first_nonempty_line(_)
first_nonempty_line(ls) ==
    IF ls = <<>> THEN <<>>
    ELSE IF trim(Head(ls)) # <<>> THEN trim(Head(ls))
    ELSE first_nonempty_line(Tail(ls))

detect_script_type_internal_gccrs(s) ==
    LET first_line == first_nonempty_line(lines(s))
        shebang == SubSeq(first_line, 3, Len(first_line))
        by_shebang ==
            IF ~starts_with(first_line, S_SHEBANG) THEN "none"
            ELSE IF contains(shebang, S_BASH) \/ contains(shebang, S_SH)
                       \/ contains(shebang, S_BIN_SH) THEN "Shell"
            ELSE IF contains(shebang, S_PYTHON) THEN "Python"
            ELSE IF contains(shebang, S_PERL) THEN "Perl"
            ELSE IF contains(shebang, S_RUBY) THEN "Ruby"
            ELSE "none"
    IN  IF first_line = <<>> THEN "Unknown"
        ELSE IF by_shebang # "none" THEN by_shebang
        ELSE IF contains(s, S_DEF) /\ contains(s, S_IMPORT) THEN "Python"
        ELSE IF contains(s, S_USE_STRICT) \/ contains(s, S_USE_WARNINGS)
                   \/ contains(s, S_SUB) THEN "Perl"
        ELSE IF contains(s, S_DEF) /\ (contains(s, S_CLASS) \/ contains(s, S_REQUIRE))
        THEN "Ruby"
        ELSE IF contains(s, S_IF_BRACKET) \/ contains(s, S_FUNCTION)
                   \/ contains(s, S_SHEBANG_BIN) THEN "Shell"
        ELSE "Unknown"

rust_detect_script_type_gccrs(is_null, script_len, valid_utf8, s) ==
    IF is_null \/ script_len <= 0 THEN c_type("Unknown")
    ELSE IF ~valid_utf8 THEN c_type("Unknown")
    ELSE c_type(detect_script_type_internal_gccrs(s))

\* brace_count is 0 at the end: as many "{" as "}".
validate_perl_syntax_gccrs(s) ==
    Cardinality({ i \in 1..Len(s) : s[i] = "{" })
        = Cardinality({ i \in 1..Len(s) : s[i] = "}" })

S_MODULE == <<"m", "o", "d", "u", "l", "e", " ">>

S_UNLESS == <<"u", "n", "l", "e", "s", "s", " ">>

S_BEGIN == <<"b", "e", "g", "i", "n">>

validate_ruby_syntax_gccrs(s) ==
    LET ls == lines(s)
        begins == { k \in 1..Len(ls) :
                      \E p \in {S_DEF, S_CLASS, S_MODULE, S_IF, S_UNLESS,
                                S_WHILE, S_FOR, S_BEGIN} :
                          starts_with(trim(ls[k]), p) }
        ends == { k \in 1..Len(ls) : k \notin begins /\ trim(ls[k]) = S_END }
    IN  Cardinality(begins) = Cardinality(ends)

validate_syntax_internal_gccrs(s, script_type) ==
    CASE script_type = "Shell" -> validate_shell_syntax_gccrs(s)
      [] script_type = "Python" -> TRUE
      [] script_type = "Perl" -> validate_perl_syntax_gccrs(s)
      [] script_type = "Ruby" -> validate_ruby_syntax_gccrs(s)
      [] script_type = "Unknown" -> FALSE

rust_validate_script_syntax_gccrs(is_null, script_len, valid_utf8, s, script_type) ==
    IF is_null \/ script_len <= 0 THEN c_int(0)
    ELSE IF ~valid_utf8 THEN c_int(0)
    ELSE c_int(IF validate_syntax_internal_gccrs(s, script_type) THEN 1 ELSE 0)

S_AUTHOR == <<"a", "u", "t", "h", "o", "r", ":">>

S_DESCRIPTION == <<"d", "e", "s", "c", "r", "i", "p", "t", "i", "o", "n", ":">>

S_VERSION == <<"v", "e", "r", "s", "i", "o", "n", ":">>

S_USAGE == <<"u", "s", "a", "g", "e", ":">>

metadata_window_gccrs == 20

\* The loop of the gccrs extract_metadata_internal from line index
\* line_num (from 0) on.
RECURSIVE metadata_scan_gccrs(_, _, _)
metadata_scan_gccrs(ls, line_num, metadata) ==
    IF line_num >= Len(ls) \/ line_num >= metadata_window_gccrs THEN metadata
    ELSE LET trimmed == trim(ls[line_num + 1])
             comment == trim(Tail(trimmed))
             comment_lower == to_lowercase(comment)
         IN  IF starts_with(trimmed, <<"#">>)
                  /\ (contains(comment_lower, S_AUTHOR)
                        \/ contains(comment_lower, S_DESCRIPTION)
                        \/ contains(comment_lower, S_VERSION)
                        \/ contains(comment_lower, S_USAGE))
             THEN metadata_scan_gccrs(ls, line_num + 1,
                      (IF metadata # <<>> THEN metadata \o <<"\n">> ELSE metadata)
                          \o comment)
             ELSE metadata_scan_gccrs(ls, line_num + 1, metadata)

extract_metadata_internal_gccrs(s) ==
    LET metadata == metadata_scan_gccrs(lines(s), 0, <<>>)
    IN  IF metadata = <<>> THEN S_NO_METADATA ELSE metadata

\* The number of bytes copied to the caller's buffer.
rust_extract_script_metadata_gccrs(is_null, script_len, valid_utf8, s, buffer_is_null, buffer_size) ==
    IF is_null \/ buffer_is_null \/ script_len <= 0 \/ buffer_size <= 0
    THEN c_int(0)
    ELSE IF ~valid_utf8 THEN c_int(0)
    ELSE c_int(Min(len(extract_metadata_internal_gccrs(s)), buffer_size - 1))

(***************************************************************************)
(* The entry points called on a buffer, and the release operations called  *)
(* on what they returned.                                                  *)
(***************************************************************************)
MaxEntryFrags == 3

EntryFrags ==
    { <<"#", "!">>, <<"/", "a">>, <<" ", "-", "e">>, <<" ", NUL>>, <<"\n">>,
      <<"x">> }

EntryTexts == TextsOf(EntryFrags, MaxEntryFrags)

\* The buffers handed to an entry point for the text s: the text itself, a
\* null pointer, a length of zero, a negative length, bytes that are not
\* UTF-8.
ArgCases(s) ==
    { [is_null |-> FALSE, script_len |-> len(s), valid_utf8 |-> TRUE],
      [is_null |-> TRUE, script_len |-> len(s), valid_utf8 |-> TRUE],
      [is_null |-> FALSE, script_len |-> 0, valid_utf8 |-> TRUE],
      [is_null |-> FALSE, script_len |-> -1, valid_utf8 |-> TRUE],
      [is_null |-> FALSE, script_len |-> len(s), valid_utf8 |-> FALSE] }

ScriptType == {"Shell", "Python", "Perl", "Ruby", "Unknown"}

\* Two color codes a theme may give.
SyntectColors ==
    { <<ESC, "[", "3", "8", ";", "2", ";", "0", ";", "0", ";", "0", "m">>,
      <<ESC, "[", "3", "8", ";", "2", ";", "9", ";", "9", ";", "9", "m">> }

\* The output buffers handed to the gccrs rust_extract_script_metadata.
BufferCases ==
    { [is_null |-> n, size |-> z] : n \in BOOLEAN, z \in {0, 1, 8} }

InitEntry ==
    /\ script \in EntryTexts
    /\ call = NoArgs
    /\ theme_set = load_defaults
    /\ heap = no_allocations
    /\ child = no_child
    /\ pc = "start"
    /\ ret = c_null

\* The call record of an entry point.
entry_call(entry, a) ==
    [entry |-> entry, is_null |-> a.is_null, script_len |-> a.script_len,
     valid_utf8 |-> a.valid_utf8]

ScriptRustDetectScriptType ==
    /\ pc = "start"
    /\ \E a \in ArgCases(script) :
          LET r == c_type(rust_detect_script_type(a.is_null, a.script_len, a.valid_utf8, script))
          IN  /\ call' = entry_call("script.rs rust_detect_script_type", a)
              /\ ret' = handed(heap, r)
              /\ heap' = heap_with(heap, r)
    /\ pc' = "returned"
    /\ UNCHANGED <<script, theme_set, child>>

ScriptRustValidateScriptSyntax ==
    /\ pc = "start"
    /\ \E a \in ArgCases(script) :
          LET r == rust_validate_script_syntax(a.is_null, a.script_len, a.valid_utf8, script)
          IN  /\ call' = entry_call("script.rs rust_validate_script_syntax", a)
              /\ ret' = handed(heap, r)
              /\ heap' = heap_with(heap, r)
    /\ pc' = "returned"
    /\ UNCHANGED <<script, theme_set, child>>

ScriptRustExtractScriptMetadata ==
    /\ pc = "start"
    /\ \E a \in ArgCases(script) :
          LET r == rust_extract_script_metadata(a.is_null, a.script_len, a.valid_utf8, script)
          IN  /\ call' = entry_call("script.rs rust_extract_script_metadata", a)
              /\ ret' = handed(heap, r)
              /\ heap' = heap_with(heap, r)
    /\ pc' = "returned"
    /\ UNCHANGED <<script, theme_set, child>>

ScriptRustGetScriptStats ==
    /\ pc = "start"
    /\ \E a \in ArgCases(script) :
          LET r == rust_get_script_stats(a.is_null, a.script_len, a.valid_utf8, script)
          IN  /\ call' = entry_call("script.rs rust_get_script_stats", a)
              /\ ret' = handed(heap, r)
              /\ heap' = heap_with(heap, r)
    /\ pc' = "returned"
    /\ UNCHANGED <<script, theme_set, child>>

\* The call record of exec.rs rust_execute_script_from_memory: whether
\* Command::spawn was called, and what the process did.
exec_call(a, attempted, x) ==
    [entry |-> "exec.rs rust_execute_script_from_memory", is_null |-> a.is_null,
     script_len |-> a.script_len, valid_utf8 |-> a.valid_utf8,
     attempted |-> attempted, outcome |-> x]

\* The call runs to the first point at which it waits for the interpreter
\* process: it returns -1 when a test on the buffer fails or the process
\* cannot be started, and otherwise has a child process.
ExecRustExecuteScriptFromMemory ==
    /\ pc = "start"
    /\ child = no_child
    /\ \E a \in ArgCases(script), spawned \in BOOLEAN :
          LET reaches == reaches_execute_script_internal(a.is_null, a.script_len, a.valid_utf8, script)
              x == [spawn |-> FALSE, write |-> FALSE, wait |-> FALSE, code |-> None]
          IN  IF reaches /\ spawned
              THEN /\ child' = [stage |-> "spawned",
                                call |-> exec_call(a, TRUE, x),
                                interpreter |-> interpreter_or_sh(script),
                                other |-> c_null]
                   /\ pc' = "rust_execute_script_from_memory"
                   /\ UNCHANGED <<call, ret>>
              ELSE /\ call' = exec_call(a, reaches, x)
                   /\ ret' = rust_execute_script_from_memory(a.is_null, a.script_len, a.valid_utf8, script, x)
                   /\ pc' = "returned"
                   /\ UNCHANGED child
    /\ UNCHANGED <<script, theme_set, heap>>

\* The call returns with the value that execute_script_internal gives for
\* the outcome x of its process.
exec_return(x) ==
    /\ call' = [child.call EXCEPT !.outcome = x]
    /\ ret' = c_int(execute_script_internal(script, child.interpreter, x))
    /\ pc' = "returned"
    /\ child' = [no_child EXCEPT !.other = child.other]

\* stdin.write_all: the script is written to the input of the process, or
\* the write fails and the call returns -1.
ExecWriteStdin ==
    /\ child.stage = "spawned"
    /\ \/ /\ child' = [child EXCEPT !.stage = "written"]
          /\ UNCHANGED <<call, pc, ret>>
       \/ exec_return([spawn |-> TRUE, write |-> FALSE, wait |-> FALSE, code |-> None])
    /\ UNCHANGED <<script, theme_set, heap>>

\* child.wait(): the call returns when the process has ended.  The output
\* pipes of the process are never read, so a process that writes more than
\* a pipe holds never ends, and the call never returns.
ExecWaitChild ==
    /\ child.stage = "written"
    /\ \/ \E x \in ProcessOutcomes : x.spawn /\ x.write /\ exec_return(x)
       \/ /\ child' = [child EXCEPT !.stage = "blocked"]
          /\ UNCHANGED <<call, pc, ret>>
    /\ UNCHANGED <<script, theme_set, heap>>

ExecRustParseShebang ==
    /\ pc = "start"
    /\ \E a \in ArgCases(script) :
          LET r == rust_parse_shebang(a.is_null, a.script_len, a.valid_utf8, script)
          IN  /\ call' = entry_call("exec.rs rust_parse_shebang", a)
              /\ ret' = handed(heap, r)
              /\ heap' = heap_with(heap, r)
    /\ pc' = "returned"
    /\ UNCHANGED <<script, theme_set, child>>

ExecRustValidateScriptBeforeExec ==
    /\ pc = "start"
    /\ \E a \in ArgCases(script) :
          LET r == rust_validate_script_before_exec(a.is_null, a.script_len, a.valid_utf8, script)
          IN  /\ call' = entry_call("exec.rs rust_validate_script_before_exec", a)
              /\ ret' = handed(heap, r)
              /\ heap' = heap_with(heap, r)
    /\ pc' = "returned"
    /\ UNCHANGED <<script, theme_set, child>>

LibRustHighlightShellScript ==
    /\ pc = "start"
    /\ \E a \in ArgCases(script), x \in SyntectColors :
          LET r == rust_highlight_shell_script_syntect(a.is_null, a.script_len, a.valid_utf8, script, x)
          IN  /\ call' = entry_call("lib.rs rust_highlight_shell_script", a)
              /\ ret' = handed(heap, r)
              /\ heap' = heap_with(heap, r)
    /\ pc' = "returned"
    /\ UNCHANGED <<script, theme_set, child>>

GccrsRustHighlightShellScript ==
    /\ pc = "start"
    /\ \E a \in ArgCases(script), x \in HighlightScheme :
          LET r == rust_highlight_shell_script(a.is_null, a.script_len, a.valid_utf8, script, x)
          IN  /\ call' = entry_call("runepkg_highlight.rs rust_highlight_shell_script", a)
              /\ ret' = handed(heap, r)
              /\ heap' = heap_with(heap, r)
    /\ pc' = "returned"
    /\ UNCHANGED <<script, theme_set, child>>

PlaceholderRustExecuteScriptFromMemory ==
    /\ pc = "start"
    /\ \E a \in ArgCases(script) :
          LET r == rust_execute_script_from_memory_placeholder(a.is_null, a.script_len, a.valid_utf8, script)
          IN  /\ call' = entry_call("runepkg_highlight.rs rust_execute_script_from_memory", a)
              /\ ret' = handed(heap, r)
              /\ heap' = heap_with(heap, r)
    /\ pc' = "returned"
    /\ UNCHANGED <<script, theme_set, child>>

PlaceholderRustParseShebang ==
    /\ pc = "start"
    /\ \E a \in ArgCases(script) :
          LET r == rust_parse_shebang_placeholder(a.is_null, a.script_len, a.valid_utf8, script)
          IN  /\ call' = entry_call("runepkg_highlight.rs rust_parse_shebang", a)
              /\ ret' = handed(heap, r)
              /\ heap' = heap_with(heap, r)
    /\ pc' = "returned"
    /\ UNCHANGED <<script, theme_set, child>>

PlaceholderRustDetectScriptType ==
    /\ pc = "start"
    /\ \E a \in ArgCases(script) :
          LET r == rust_detect_script_type_placeholder(a.is_null, a.script_len, a.valid_utf8, script)
          IN  /\ call' = entry_call("runepkg_highlight.rs rust_detect_script_type", a)
              /\ ret' = handed(heap, r)
              /\ heap' = heap_with(heap, r)
    /\ pc' = "returned"
    /\ UNCHANGED <<script, theme_set, child>>

PlaceholderRustValidateScriptSyntax ==
    /\ pc = "start"
    /\ \E a \in ArgCases(script) :
          LET r == rust_validate_script_syntax_placeholder(a.is_null, a.script_len, a.valid_utf8, script)
          IN  /\ call' = entry_call("runepkg_highlight.rs rust_validate_script_syntax", a)
              /\ ret' = handed(heap, r)
              /\ heap' = heap_with(heap, r)
    /\ pc' = "returned"
    /\ UNCHANGED <<script, theme_set, child>>

PlaceholderRustExtractScriptMetadata ==
    /\ pc = "start"
    /\ \E a \in ArgCases(script) :
          LET r == rust_extract_script_metadata_placeholder(a.is_null, a.script_len, a.valid_utf8, script)
          IN  /\ call' = entry_call("runepkg_highlight.rs rust_extract_script_metadata", a)
              /\ ret' = handed(heap, r)
              /\ heap' = heap_with(heap, r)
    /\ pc' = "returned"
    /\ UNCHANGED <<script, theme_set, child>>

PlaceholderRustGetScriptStats ==
    /\ pc = "start"
    /\ \E a \in ArgCases(script) :
          LET r == rust_get_script_stats_placeholder(a.is_null, a.script_len, a.valid_utf8, script)
          IN  /\ call' = entry_call("runepkg_highlight.rs rust_get_script_stats", a)
              /\ ret' = handed(heap, r)
              /\ heap' = heap_with(heap, r)
    /\ pc' = "returned"
    /\ UNCHANGED <<script, theme_set, child>>

GccrsRustDetectScriptType ==
    /\ pc = "start"
    /\ \E a \in ArgCases(script) :
          LET r == rust_detect_script_type_gccrs(a.is_null, a.script_len, a.valid_utf8, script)
          IN  /\ call' = entry_call("runepkg_script.rs rust_detect_script_type", a)
              /\ ret' = handed(heap, r)
              /\ heap' = heap_with(heap, r)
    /\ pc' = "returned"
    /\ UNCHANGED <<script, theme_set, child>>

GccrsRustValidateScriptSyntax ==
    /\ pc = "start"
    /\ \E a \in ArgCases(script), x \in ScriptType :
          LET r == rust_validate_script_syntax_gccrs(a.is_null, a.script_len, a.valid_utf8, script, x)
          IN  /\ call' = entry_call("runepkg_script.rs rust_validate_script_syntax", a)
              /\ ret' = handed(heap, r)
              /\ heap' = heap_with(heap, r)
    /\ pc' = "returned"
    /\ UNCHANGED <<script, theme_set, child>>

GccrsRustExtractScriptMetadata ==
    /\ pc = "start"
    /\ \E a \in ArgCases(script), x \in BufferCases :
          LET r == rust_extract_script_metadata_gccrs(a.is_null, a.script_len, a.valid_utf8, script, x.is_null, x.size)
          IN  /\ call' = entry_call("runepkg_script.rs rust_extract_script_metadata", a)
              /\ ret' = handed(heap, r)
              /\ heap' = heap_with(heap, r)
    /\ pc' = "returned"
    /\ UNCHANGED <<script, theme_set, child>>

ExecRustParseShebangWithArgs ==
    /\ pc = "start"
    /\ \E a \in ArgCases(script), max_args \in 0..MaxArgsBound,
          malloc_ok \in BOOLEAN :
          LET r == rust_parse_shebang_with_args(heap, a.is_null, a.script_len,
                       a.valid_utf8, script, max_args, malloc_ok)
          IN  /\ call' = entry_call("exec.rs rust_parse_shebang_with_args", a)
              /\ ret' = r.ret
              /\ heap' = r.heap
    /\ pc' = "returned"
    /\ UNCHANGED <<script, theme_set, child>>

\* The caller releases what exec.rs and script.rs returned as a string with
\* rust_free_string, which does nothing on a null pointer.
RustFreeString ==
    /\ pc = "returned"
    /\ call.entry \in {"exec.rs rust_parse_shebang",
                       "script.rs rust_extract_script_metadata",
                       "script.rs rust_get_script_stats"}
    /\ ret.tag \in {"string", "null"}
    /\ heap' = IF ret.tag = "null" THEN heap ELSE free_string(heap, ret.addr)
    /\ pc' = "released"
    /\ UNCHANGED <<script, call, ret, theme_set, child>>

\* The caller releases what lib.rs and runepkg_highlight.rs returned as a
\* string with rust_free_highlighted_string.
RustFreeHighlightedString ==
    /\ pc = "returned"
    /\ call.entry \in {"lib.rs rust_highlight_shell_script",
                       "runepkg_highlight.rs rust_highlight_shell_script",
                       "runepkg_highlight.rs rust_detect_script_type",
                       "runepkg_highlight.rs rust_get_script_stats"}
    /\ ret.tag \in {"string", "null"}
    /\ heap' = IF ret.tag = "null" THEN heap ELSE free_string(heap, ret.addr)
    /\ pc' = "released"
    /\ UNCHANGED <<script, call, ret, theme_set, child>>

\* The caller releases the array of rust_parse_shebang_with_args with
\* rust_free_string_array, which does nothing on a null pointer.
RustFreeStringArray ==
    /\ pc = "returned"
    /\ call.entry = "exec.rs rust_parse_shebang_with_args"
    /\ ret.tag \in {"array", "null"}
    /\ heap' = IF ret.tag = "null" THEN heap
               ELSE free_string_array(heap, ret.addr)
    /\ pc' = "released"
    /\ UNCHANGED <<script, call, ret, theme_set, child>>

\* lib.rs rust_get_version takes no buffer; nothing releases its string.
LibRustGetVersion ==
    /\ pc = "start"
    /\ call' = [entry |-> "lib.rs rust_get_version"]
    /\ ret' = handed(heap, rust_get_version)
    /\ heap' = heap_with(heap, rust_get_version)
    /\ pc' = "rust_get_version"
    /\ UNCHANGED <<script, theme_set, child>>

NextEntry ==
    \/ ScriptRustDetectScriptType
    \/ ScriptRustValidateScriptSyntax
    \/ ScriptRustExtractScriptMetadata
    \/ ScriptRustGetScriptStats
    \/ ExecRustExecuteScriptFromMemory
    \/ ExecWriteStdin
    \/ ExecWaitChild
    \/ ExecRustParseShebang
    \/ ExecRustValidateScriptBeforeExec
    \/ LibRustHighlightShellScript
    \/ LibRustGetVersion
    \/ GccrsRustHighlightShellScript
    \/ PlaceholderRustExecuteScriptFromMemory
    \/ PlaceholderRustParseShebang
    \/ PlaceholderRustDetectScriptType
    \/ PlaceholderRustValidateScriptSyntax
    \/ PlaceholderRustExtractScriptMetadata
    \/ PlaceholderRustGetScriptStats
    \/ GccrsRustDetectScriptType
    \/ GccrsRustValidateScriptSyntax
    \/ GccrsRustExtractScriptMetadata
    \/ ExecRustParseShebangWithArgs
    \/ RustFreeString
    \/ RustFreeHighlightedString
    \/ RustFreeStringArray

SpecEntry == InitEntry /\ [][NextEntry]_vars

(***************************************************************************)
(* What the claims say of the entry points.                                *)
(***************************************************************************)
\* The value an entry point returns for invalid input: a null pointer where
\* it returns a pointer, 0 where it returns a verdict or a count, -1 where
\* it returns the outcome of an execution, Unknown where it returns a type.
ClaimSentinel(entry) ==
    CASE entry = "script.rs rust_detect_script_type" -> c_type("Unknown")
      [] entry = "script.rs rust_validate_script_syntax" -> c_int(0)
      [] entry = "script.rs rust_extract_script_metadata" -> c_null
      [] entry = "script.rs rust_get_script_stats" -> c_null
      [] entry = "exec.rs rust_execute_script_from_memory" -> c_int(-1)
      [] entry = "exec.rs rust_parse_shebang" -> c_null
      [] entry = "exec.rs rust_validate_script_before_exec" -> c_int(0)
      [] entry = "lib.rs rust_highlight_shell_script" -> c_null
      [] entry = "runepkg_highlight.rs rust_highlight_shell_script" -> c_null
      [] entry = "runepkg_highlight.rs rust_execute_script_from_memory" -> c_int(-1)
      [] entry = "runepkg_highlight.rs rust_parse_shebang" -> c_null
      [] entry = "runepkg_highlight.rs rust_detect_script_type" -> c_null
      [] entry = "runepkg_highlight.rs rust_validate_script_syntax" -> c_int(0)
      [] entry = "runepkg_highlight.rs rust_extract_script_metadata" -> c_null
      [] entry = "runepkg_highlight.rs rust_get_script_stats" -> c_null
      [] entry = "runepkg_script.rs rust_detect_script_type" -> c_type("Unknown")
      [] entry = "runepkg_script.rs rust_validate_script_syntax" -> c_int(0)
      [] entry = "runepkg_script.rs rust_extract_script_metadata" -> c_int(0)
      [] entry = "exec.rs rust_parse_shebang_with_args" -> c_null

ClaimInvalidInput == call.is_null \/ call.script_len <= 0 \/ ~call.valid_utf8

\* C18: every entry point that takes a buffer and a length returns its
\* sentinel when the buffer is null, the length is not positive, or the
\* bytes are not valid UTF-8.
C18_InvalidInputSentinel ==
    pc = "returned" /\ ClaimInvalidInput => ret = ClaimSentinel(call.entry)

\* The same statement without the placeholder entry points of
\* runepkg_highlight.rs.
C18_ButPlaceholders ==
    pc = "returned" /\
    call.entry \notin {"runepkg_highlight.rs rust_execute_script_from_memory",
                       "runepkg_highlight.rs rust_parse_shebang",
                       "runepkg_highlight.rs rust_detect_script_type",
                       "runepkg_highlight.rs rust_validate_script_syntax",
                       "runepkg_highlight.rs rust_extract_script_metadata",
                       "runepkg_highlight.rs rust_get_script_stats"}
        => C18_InvalidInputSentinel

\* C20: an allocation that has been released was released once and with
\* the allocator that made it, and after the release operation has run no
\* allocation of the call is live.
C20_PairedRelease ==
    /\ \A a \in 1..Len(heap) :
          ~heap[a].live
              => heap[a].released_by = heap[a].allocator /\ heap[a].releases = 1
    /\ pc = "released" => \A a \in 1..Len(heap) : ~heap[a].live

(***************************************************************************)
(* lib.rs and gccrs-src/runepkg_highlight.rs: the themes by index.         *)
(***************************************************************************)
\* lib.rs: THEME_SET.themes.len()
rust_get_theme_count(themes) == Len(themes)

\* A faulty variant: the index equal to the number of themes passes the
\* range test, and theme_names[index] panics.
rust_get_theme_name_off_by_one(themes, index) ==
    IF index < 0 \/ index > Len(themes) THEN c_null
    ELSE IF index = Len(themes) THEN c_abort
    ELSE cstring_into_raw(themes[index + 1])

\* lib.rs: the name at position index of THEME_SET.themes.keys(), in a new
\* CString that is never released.
rust_get_theme_name(themes, index) ==
    IF index < 0 \/ index >= Len(themes) THEN c_null
    ELSE cstring_into_raw(themes[index + 1])

\* gccrs-src/runepkg_highlight.rs
rust_get_theme_count_gccrs == 3

rust_get_theme_name_gccrs(index) ==
    CASE index = 0 -> c_string(<<"n", "a", "n", "o">>)
      [] index = 1 -> c_string(<<"v", "i", "m">>)
      [] index = 2 -> c_string(<<"d", "e", "f", "a", "u", "l", "t">>)
      [] OTHER -> c_null

\* The number of calls of rust_get_theme_name in a behavior.
MaxThemeCalls == 2

\* The theme sets: the library's themes, or the first few of them.
ThemeSets == { SubSeq(load_defaults, 1, k) : k \in 0..Len(load_defaults) }

\* The indexes asked for: from below 0 to above the number of themes.
ThemeIndexes == -1..(Len(load_defaults) + 1)

InitThemes ==
    /\ script = <<>>
    /\ call = [variant |-> "", index |-> 0, log |-> <<>>]
    /\ theme_set \in ThemeSets
    /\ heap = no_allocations
    /\ child = no_child
    /\ pc = "start"
    /\ ret = c_null

\* The call record of rust_get_theme_name: the variant, the index, and the
\* log of the calls so far with what each returned, this call included.
theme_call(variant, index, r) ==
    [variant |-> variant, index |-> index,
     log |-> Append(call.log, [variant |-> variant, index |-> index,
                               tag |-> r.tag, text |-> r.text])]

RustGetThemeCount ==
    /\ pc' = "rust_get_theme_count"
    /\ call' = [call EXCEPT !.variant = "lib.rs"]
    /\ ret' = c_int(rust_get_theme_count(theme_set))
    /\ UNCHANGED <<script, theme_set, child, heap>>

RustGetThemeName ==
    /\ Len(call.log) < MaxThemeCalls
    /\ \E index \in ThemeIndexes :
          LET r == rust_get_theme_name(theme_set, index)
          IN  /\ call' = theme_call("lib.rs", index, r)
              /\ ret' = handed(heap, r)
              /\ heap' = heap_with(heap, r)
    /\ pc' = "rust_get_theme_name"
    /\ UNCHANGED <<script, theme_set, child>>

GccrsRustGetThemeCount ==
    /\ pc' = "rust_get_theme_count"
    /\ call' = [call EXCEPT !.variant = "runepkg_highlight.rs"]
    /\ ret' = c_int(rust_get_theme_count_gccrs)
    /\ UNCHANGED <<script, theme_set, child, heap>>

GccrsRustGetThemeName ==
    /\ Len(call.log) < MaxThemeCalls
    /\ \E index \in ThemeIndexes :
          LET r == rust_get_theme_name_gccrs(index)
          IN  /\ call' = theme_call("runepkg_highlight.rs", index, r)
              /\ ret' = r
    /\ pc' = "rust_get_theme_name"
    /\ UNCHANGED <<script, theme_set, child, heap>>

\* The number of calls of lib.rs rust_get_version in a behavior.
MaxVersionCalls == 1

\* lib.rs rust_get_version: one more allocation that nothing releases.
RustGetVersion ==
    /\ Cardinality({ a \in 1..Len(heap) : heap[a].text = VERSION_SYNTECT })
          < MaxVersionCalls
    /\ pc' = "rust_get_version"
    /\ call' = [call EXCEPT !.variant = "lib.rs"]
    /\ ret' = handed(heap, rust_get_version)
    /\ heap' = heap_with(heap, rust_get_version)
    /\ UNCHANGED <<script, theme_set, child>>

GccrsRustGetVersion ==
    /\ pc' = "rust_get_version"
    /\ call' = [call EXCEPT !.variant = "runepkg_highlight.rs"]
    /\ ret' = rust_get_version_gccrs
    /\ UNCHANGED <<script, theme_set, heap, child>>

NextThemes ==
    \/ RustGetThemeCount
    \/ RustGetThemeName
    \/ GccrsRustGetThemeCount
    \/ GccrsRustGetThemeName
    \/ RustGetVersion
    \/ GccrsRustGetVersion

SpecThemes == InitThemes /\ [][NextThemes]_vars

\* What rust_get_theme_count of a variant returns.
ClaimThemeCount(variant) ==
    IF variant = "lib.rs" THEN rust_get_theme_count(theme_set)
    ELSE rust_get_theme_count_gccrs

\* C19: rust_get_theme_name returns null for an index below 0 or not below
\* rust_get_theme_count(), a name for every other index, and the name it
\* returned for the same index in every earlier call.
C19_ThemeByIndex ==
    /\ pc = "rust_get_theme_count" => ret = c_int(ClaimThemeCount(call.variant))
    /\ pc = "rust_get_theme_name"
          => /\ (call.index < 0 \/ call.index >= ClaimThemeCount(call.variant))
                   => ret = c_null
             /\ (call.index >= 0 /\ call.index < ClaimThemeCount(call.variant))
                   => ret.tag = "string" /\ ret.text # <<>>
             /\ \A k \in 1..Len(call.log) :
                   (call.log[k].variant = call.variant
                       /\ call.log[k].index = call.index)
                       => call.log[k].tag = ret.tag /\ call.log[k].text = ret.text

\* The last theme of a set of several has been asked for twice.
C19_Witness ==
    /\ pc = "rust_get_theme_name"
    /\ call.variant = "lib.rs"
    /\ Len(theme_set) > 1
    /\ call.index = Len(theme_set) - 1
    /\ ret.tag = "string"
    /\ Len(call.log) = 2
    /\ call.log[1].index = call.index
    /\ call.log[1].variant = call.variant

(***************************************************************************)
(* What the claims say of the two checks taken together.                   *)
(***************************************************************************)
\* The quote check holds a quoted region open after the first n characters.
ClaimQuotedByQuotes(s, n) ==
    LET st == quote_scan(s, n)
    IN  st.in_single_quote \/ st.in_double_quote

\* The bracket check holds a quoted region open after the first n
\* characters: what it meets next is skipped.
ClaimQuotedByBrackets(s, n) == bracket_scan(s, n).in_quote

\* C21: validate_brackets tracks quoted regions as validate_quotes does: at
\* every position the bracket check reaches, it is inside a quoted region
\* iff the quote check is, the effect of a backslash before a quote
\* included; a bracket is skipped exactly when the quote check has it quoted.
C21_SameQuotedRegions ==
    pc = "validate_brackets" =>
        \A i \in 1..bracket_scan(script, Len(script)).pos :
            ClaimQuotedByBrackets(script, i - 1) <=> ClaimQuotedByQuotes(script, i - 1)

(***************************************************************************)
(* The classifier applied to two texts, one after the other.               *)
(***************************************************************************)
MaxPairFrags == 2

PairFrags ==
    { <<"#", "!", "/", "b", "i", "n", "/", "s", "h">>, S_SHEBANG,
      <<" ">> \o S_PERL, <<" ", "-", "e">>, S_RUBY, <<"\n">>, <<"x">> }

PairTexts == TextsOf(PairFrags, MaxPairFrags)

InitPair ==
    /\ script \in PairTexts
    /\ \E other \in PairTexts : call = [other |-> other]
    /\ theme_set = load_defaults
    /\ heap = no_allocations
    /\ child = no_child
    /\ pc = "start"
    /\ ret = None

DetectFirst ==
    /\ pc = "start"
    /\ pc' = "detect_script_type_internal first"
    /\ ret' = detect_script_type_internal(script)
    /\ UNCHANGED <<script, call, theme_set, child, heap>>

DetectSecond ==
    /\ pc = "detect_script_type_internal first"
    /\ pc' = "detect_script_type_internal second"
    /\ call' = [other |-> call.other, first |-> ret]
    /\ ret' = detect_script_type_internal(call.other)
    /\ UNCHANGED <<script, theme_set, child, heap>>

NextPair ==
    \/ DetectFirst
    \/ DetectSecond

SpecPair == InitPair /\ [][NextPair]_vars

\* Two texts that differ at most in the arguments of their shebang lines:
\* both start with a shebang line, the shebang parser returns the same
\* interpreter token for both, and their lines after the first are equal.
ClaimSameButArguments(s, t) ==
    /\ ClaimHasShebang(s)
    /\ ClaimHasShebang(t)
    /\ extract_shebang_interpreter(s) # None
    /\ extract_shebang_interpreter(s) = extract_shebang_interpreter(t)
    /\ Tail(lines(s)) = Tail(lines(t))

\* C22: the classification by shebang depends on the interpreter token
\* alone: two texts with the same interpreter token and equal remaining
\* lines receive the same ScriptType, whatever the shebang arguments are.
C22_InterpreterTokenOnly ==
    (pc = "detect_script_type_internal second"
     /\ ClaimSameButArguments(script, call.other))
        => ret = call.first

\* The lines of s that are shebangs of the form "#!/..." in the header: no
\* line of code stands before them, and they lie in the first 50 lines.
ClaimHeaderShebangs(s) ==
    LET ls == lines(s)
    IN  { k \in 1..Min(Len(ls), 50) :
            /\ starts_with(trim(ls[k]), <<"#", "!", "/">>)
            /\ \A j \in 1..(k - 1) : ~ClaimIsCode(ls[j]) }

\* C23: a shebang line `#!/...` of the header gives the entry
\* `Interpreter: <the line, trimmed>`: the output has that entry.
C23_InterpreterEntry ==
    pc = "extract_metadata_internal" =>
        /\ ~ret.panicked
        /\ \A k \in ClaimHeaderShebangs(script) :
              \E i \in 1..Len(ClaimEntries(ret.value)) :
                  ClaimEntries(ret.value)[i]
                      = <<"I", "n", "t", "e", "r", "p", "r", "e", "t", "e", "r", ":", " ">>
                          \o trim(lines(script)[k])

\* The branch of the loop that pushes the Interpreter entry is never taken:
\* no output of the extractor has an entry that starts with "Interpreter: ".
C23_NoInterpreterEntry ==
    pc = "extract_metadata_internal" =>
        \A i \in 1..Len(ClaimEntries(ret.value)) :
            ~starts_with(ClaimEntries(ret.value)[i], S_INTERPRETER)

(***************************************************************************)
(* What the claims say of the Keyword spans of a highlighted line.         *)
(***************************************************************************)
\* The code c stands in out at position p.
ClaimCodeAt(out, p, c) ==
    p + Len(c) - 1 <= Len(out) /\ SubSeq(out, p, p + Len(c) - 1) = c

\* The Keyword spans of out, the highlighted form of line: each with the
\* text it colors and the characters of the line right before and right
\* after it (<<>> at an end of the line).  The span that starts at position
\* p of out starts in the line after the characters that out has before p.
ClaimKeywordSpans(line, out) ==
    { LET word == SubSeq(out, pq[1] + Len(COLOR_KEYWORD), pq[2] - 1)
          first == Len(ClaimStrip(SubSeq(out, 1, pq[1] - 1))) + 1
          last == first + Len(word) - 1
      IN  [word |-> word,
           before |-> IF first > 1 THEN <<line[first - 1]>> ELSE <<>>,
           after |-> IF last < Len(line) THEN <<line[last + 1]>> ELSE <<>>] :
        pq \in { pq \in (1..Len(out)) \X (1..Len(out)) :
            /\ ClaimCodeAt(out, pq[1], COLOR_KEYWORD)
            /\ pq[2] > pq[1]
            /\ ClaimCodeAt(out, pq[2], COLOR_RESET)
            /\ \A r \in (pq[1] + 1)..(pq[2] - 1) :
                  ~ClaimCodeAt(out, r, COLOR_RESET) } }

ClaimWordChar(c) == is_alphanumeric(c) \/ c = "_"

\* C24: Keyword marks whole words of the vocabulary alone, a word being a
\* maximal run of alphanumeric or "_" characters: the text of a Keyword
\* span is a keyword, and no alphanumeric or "_" character stands right
\* before or right after the span.
C24_WholeWordKeywords ==
    (pc = "highlight_line_simple" /\ ~ret.panicked) =>
        \A sp \in ClaimKeywordSpans(script, ret.value) :
            /\ is_shell_keyword(sp.word)
            /\ sp.before = <<>> \/ ~ClaimWordChar(sp.before[1])
            /\ sp.after = <<>> \/ ~ClaimWordChar(sp.after[1])

\* C24, amended: a word starts at a letter the scan arrives at and runs to
\* the last alphanumeric or "_" character after it.  The text of a Keyword
\* span is a keyword, no alphanumeric or "_" character stands right after
\* the span and no letter right before it; a digit or a "_" may stand
\* right before it.
C24_KeywordFromLetter ==
    (pc = "highlight_line_simple" /\ ~ret.panicked) =>
        \A sp \in ClaimKeywordSpans(script, ret.value) :
            /\ is_shell_keyword(sp.word)
            /\ sp.before = <<>> \/ ~is_alphabetic(sp.before[1])
            /\ sp.after = <<>> \/ ~ClaimWordChar(sp.after[1])

\* The keyword of `1if` is marked, a digit right before it.
C24_Witness ==
    /\ pc = "highlight_line_simple"
    /\ script = <<"1", "i", "f">>
    /\ ~ret.panicked
    /\ \E sp \in ClaimKeywordSpans(script, ret.value) :
          sp.word = <<"i", "f">> /\ sp.before = <<"1">>

\* C25: the output of highlight_script_internal without its color codes is
\* the input text: the lines in order, every line separator as it was, and
\* no separator after a last line that had none.
C25_SeparatorsPreserved ==
    pc = "highlight_script_internal"
        => ~ret.panicked /\ ClaimStrip(ret.value) = script

\* What the loop over lines() gives instead, for the texts on which no line
\* fails: every line, without the "\r" of a "\r\n", followed by one "\n".
C25_NewlineAfterEveryLine ==
    (pc = "highlight_script_internal"
     /\ \A i \in 1..Len(script) : len_utf8(script[i]) = 1)
        => ~ret.panicked /\ ClaimStrip(ret.value) = WithNewlines(lines(script))

(***************************************************************************)
(* exec.rs: rust_execute_script_from_memory called on a buffer by one       *)
(* thread, and rust_parse_shebang and rust_free_string called by a second   *)
(* thread while the first call has not returned.                            *)
(***************************************************************************)
InitExec ==
    /\ script \in EntryTexts
    /\ call = NoArgs
    /\ theme_set = load_defaults
    /\ heap = no_allocations
    /\ child = no_child
    /\ pc = "start"
    /\ ret = c_null

\* The second thread calls rust_parse_shebang on the same text and holds
\* the string it returns.
MeanwhileRustParseShebang ==
    /\ child.stage \in {"spawned", "written", "blocked"}
    /\ child.other = c_null
    /\ heap = no_allocations
    /\ LET r == rust_parse_shebang(FALSE, len(script), TRUE, script)
       IN  /\ child' = [child EXCEPT !.other = handed(heap, r)]
           /\ heap' = heap_with(heap, r)
    /\ UNCHANGED <<script, call, pc, ret, theme_set>>

\* The second thread releases the string it holds with rust_free_string.
MeanwhileRustFreeString ==
    /\ child.stage \in {"spawned", "written", "blocked"}
    /\ child.other.tag = "string"
    /\ heap' = free_string(heap, child.other.addr)
    /\ child' = [child EXCEPT !.other = c_null]
    /\ UNCHANGED <<script, call, pc, ret, theme_set>>

NextExec ==
    \/ ExecRustExecuteScriptFromMemory
    \/ ExecWriteStdin
    \/ ExecWaitChild
    \/ MeanwhileRustParseShebang
    \/ MeanwhileRustFreeString

SpecExec == InitExec /\ [][NextExec]_vars

\* What the caller is told of a process: 0 when it succeeded, its exit code
\* otherwise, -1 when it could not be run or gave no exit code.
ClaimProcessResult(x) ==
    IF x.spawn /\ x.write /\ x.wait /\ x.code # None THEN x.code[1] ELSE -1

ClaimValidBuffer ==
    ~call.is_null /\ call.script_len > 0 /\ call.valid_utf8

\* C26: on a non-null buffer of positive length that holds valid UTF-8 text
\* without a NUL, rust_execute_script_from_memory runs the text with its
\* interpreter (/bin/sh without a shebang) and returns the outcome of the
\* process; it returns -1 without a process only for invalid input.
C26_RunsOrdinaryScript ==
    pc = "returned" =>
        /\ (ClaimValidBuffer /\ \A i \in 1..Len(script) : script[i] # NUL)
              => /\ call.attempted
                 /\ ret = c_int(ClaimProcessResult(call.outcome))
        /\ ~ClaimValidBuffer => ~call.attempted /\ ret = c_int(-1)

\* What the code does: a process is run only for a text that holds a NUL;
\* every text without one gives -1 and no process is started for it.
C26_RunsOnlyWithNul ==
    pc = "returned" =>
        /\ call.attempted
              <=> (ClaimValidBuffer /\ \E i \in 1..Len(script) : script[i] = NUL)
        /\ ret = IF call.attempted THEN c_int(ClaimProcessResult(call.outcome))
                 ELSE c_int(-1)

====
